---- MODULE Spec2Model ----
(***************************************************************************)
(* FormulaAI: the formatting pipeline (FormattingWorker.run), the format   *)
(* application engine (DocProcessor.apply_formatting), the response        *)
(* validation (AIConnector.parse_response, StructureAnalyzer.              *)
(* validate_structure), the credential check (AIConnector.validate_config) *)
(* and the two main windows that start and stop the worker thread.         *)
(***************************************************************************)
EXTENDS Integers, Sequences, FiniteSets, TLC

(***************************************************************************)
(* Bounds of the model.                                                    *)
(***************************************************************************)
\* longest instruction list handed directly to apply_formatting
MaxApplyElems == 11
\* most elements of such a list whose application fails
MaxBad == 2
\* longest element list in a response of the AI service
MaxRespElems == 2
\* longest element list handed directly to validate_structure
MaxValElems == 2
\* most start requests a window handles
MaxStarts == 2
\* longest text inside a string value of a payload handed to _fix_json
MaxStrLen == 3
\* longest element list of such a payload
MaxFixElems == 2
\* most paragraphs of a document handed to analyze_text_features
MaxParas == 3
\* most calls of apply_formatting on the same input file
MaxRuns == 3
\* last second of the clock
MaxClock == 2
\* save_template calls in a row
MaxSaves == 2
\* characters of a reply from which the payload is extracted
MaxTextLen == 4

(***************************************************************************)
(* Program constants.                                                      *)
(***************************************************************************)
\* doc_processor.py:131   batch_size = 10
batch_size == 10

(***************************************************************************)
(* Instruction elements.  An element of the instruction list is whatever   *)
(* JSON value the service put there.  isDict: it is a record; keys: which *)
(* of type/content/format it carries; content: the kind of value under     *)
(* "content" ("text" a string, "number" a value that cannot be sliced,     *)
(* "numlist" a list of numbers: it can be sliced but not written as a      *)
(* run); fmt: the attributes present in its format record.                 *)
(***************************************************************************)
ElemKeys == {"type", "content", "format"}
FormatAttrs == {"font", "size", "bold", "line_spacing", "alignment"}
ContentKinds == {"text", "number", "numlist"}

MkElem(d, k, c, f) == [isDict |-> d, keys |-> k, content |-> c, fmt |-> f]

GoodElem == MkElem(TRUE, ElemKeys, "text", FormatAttrs)
\* a JSON number in the list: not a record
NonDictElem == MkElem(FALSE, {}, "text", {})
\* complete record whose content is a number
NumberElem == MkElem(TRUE, ElemKeys, "number", FormatAttrs)
\* complete record whose content is a list of numbers
NumListElem == MkElem(TRUE, ElemKeys, "numlist", FormatAttrs)
\* records whose format is present but partial or empty
EmptyFmtElem == MkElem(TRUE, ElemKeys, "text", {})
PartialFmtElem == MkElem(TRUE, ElemKeys, "text", {"font", "size"})
\* records lacking one key
NoTypeElem == MkElem(TRUE, {"content", "format"}, "text", FormatAttrs)
NoContentElem == MkElem(TRUE, {"type", "format"}, "text", FormatAttrs)
NoFormatElem == MkElem(TRUE, {"type", "content"}, "text", {})

\* structure_analyzer.py:272-276  the format record validate_structure adds
DefaultFormat == {"font", "size", "line_spacing"}

(***************************************************************************)
(* Instruction structures (the parsed payload).  kind:                     *)
(*   "none"        None                                                    *)
(*   "nondict"     a JSON value that is not an object (a list)             *)
(*   "emptydict"   {}                                                      *)
(*   "noelements"  a non-empty object without the key elements             *)
(*   "elemsnull"   elements is null                                        *)
(*   "elemsnum"    elements is a non-zero number                           *)
(*   "list"        elements is a list: elems                               *)
(***************************************************************************)
MkStruct(k, es) == [kind |-> k, elems |-> es]
NoStruct == MkStruct("none", <<>>)

IsDictStruct(s) == s.kind \in {"emptydict", "noelements", "elemsnull", "elemsnum", "list"}
HasElementsKey(s) == s.kind \in {"elemsnull", "elemsnum", "list"}

SeqsUpTo(S, n) == UNION {[1..k -> S] : k \in 0..n}

(***************************************************************************)
(* DocProcessor._process_element, as a function of the element.            *)
(***************************************************************************)
\* element.get('content', '')
ContentOf(e) == IF "content" \in e.keys THEN e.content ELSE "text"

\* lines 203-222: a paragraph is added unless the element is not a record
\* (return at 205) or content[:50] raises (line 208)
AddsParagraph(e) == e.isDict /\ ContentOf(e) # "number"

\* line 225: paragraph.add_run(content)
RunSucceeds(e) == ContentOf(e) = "text"

\* the element's application fails (error logged at 204 or at 239)
ElementFails(e) == ~e.isDict \/ ContentOf(e) # "text"

\* mutant: a failing element aborts the loop
NextIndexAbort(i, failed, total) == IF failed THEN total ELSE i + 1
\* lines 139-146, 238-243: the failure is logged and the loop goes on
NextIndex(i, failed, total) == i + 1

\* lines 134-135: the batch [batch_start, batch_end) ends after element i
\* (i counts the elements processed so far)
BatchEnds(i, total) == i = total \/ i % batch_size = 0


(***************************************************************************)
(* DocProcessor.apply_formatting: the checks before the loop.              *)
(***************************************************************************)
\* lines 103-110: the instructions are a dict and elements, when present,
\* is a list
ApplyAccepts(s) == s.kind \in {"emptydict", "noelements", "list"}
\* line 107: formatting_instructions.get('elements', [])
ApplyElements(s) == IF s.kind = "list" THEN s.elems ELSE <<>>

(***************************************************************************)
(* AIConnector.send_request.  outcome: what requests.post met.             *)
(***************************************************************************)
Outcomes == {"ok", "status", "timeout", "fault", "badbody"}

\* mutant: a failed request is sent a second time
PostsIssuedRetry(outcome) == IF outcome = "ok" THEN 1 ELSE 2
\* line 228: the only requests.post of send_request
PostsIssued(outcome) == 1

\* mutant: a failed request is taken for a success
SendSucceedsAlways(outcome) == TRUE
\* lines 233-271: success only for status 200 with a JSON body
SendSucceeds(outcome) == outcome = "ok"

(***************************************************************************)
(* AIConnector.parse_response.  A reply is the text of the first choice:   *)
(* text "empty" (no content), "nobrace" (no { or no }), "garbage" (the     *)
(* span does not parse, also not after _fix_json), "json" (the span        *)
(* parses, directly or after repair, to payload).                          *)
(***************************************************************************)
MkReply(t, p) == [text |-> t, payload |-> p]
NoReply == MkReply("empty", NoStruct)

\* lines 482-497: every element is a record carrying type, content, format
ElementAccepted(e) == e.isDict /\ ElemKeys \subseteq e.keys

\* lines 420-541
ParseResponse(reply) ==
  IF reply.text # "json" THEN [ok |-> FALSE, instr |-> NoStruct]
  ELSE IF ~IsDictStruct(reply.payload) THEN [ok |-> FALSE, instr |-> NoStruct]
  ELSE IF ~HasElementsKey(reply.payload) THEN [ok |-> FALSE, instr |-> NoStruct]
  ELSE IF reply.payload.kind # "list" THEN [ok |-> FALSE, instr |-> NoStruct]
  ELSE IF \E k \in 1..Len(reply.payload.elems) : ~ElementAccepted(reply.payload.elems[k])
       THEN [ok |-> FALSE, instr |-> NoStruct]
  ELSE [ok |-> TRUE, instr |-> reply.payload]

(***************************************************************************)
(* StructureAnalyzer.validate_structure.                                   *)
(***************************************************************************)
\* lines 262-276: the keys that are absent are added, the others are left
BackfillElement(e) ==
  [e EXCEPT !.keys = ElemKeys,
            !.content = ContentOf(e),
            !.fmt = IF "format" \in e.keys THEN e.fmt ELSE DefaultFormat]

\* lines 251-279.  res: "valid" (True), "invalid" (False), "raised" (the
\* loop met an element that is not a record, or elements is a number)
ValidateStructure(s) ==
  IF s.kind \in {"none", "nondict", "emptydict", "noelements"}
    THEN [res |-> "invalid", struct |-> s]
  ELSE IF s.kind = "elemsnull" \/ (s.kind = "list" /\ s.elems = <<>>)
    THEN [res |-> "invalid", struct |-> s]
  ELSE IF s.kind = "elemsnum"
    THEN [res |-> "raised", struct |-> s]
  ELSE LET bad == {k \in 1..Len(s.elems) : ~s.elems[k].isDict}
           stop == IF bad = {} THEN Len(s.elems) + 1
                   ELSE CHOOSE k \in bad : \A j \in bad : k <= j
           es == [k \in 1..Len(s.elems) |->
                    IF k < stop THEN BackfillElement(s.elems[k]) ELSE s.elems[k]]
       IN [res |-> IF bad = {} THEN "valid" ELSE "raised",
           struct |-> MkStruct("list", es)]

(***************************************************************************)
(* AIConnector.validate_config.  cfg: the three settings, "" when empty.   *)
(* test: what the test request met.                                        *)
(***************************************************************************)
Settings == {"", "set"}
Configs == [api_url : Settings, api_key : Settings, model : Settings]
TestOutcomes == {"ok", "status", "fault"}

\* mutant: the test request is sent before the settings are looked at
ValidateConfigEager(cfg, test) ==
  IF cfg.api_key = "" THEN [valid |-> FALSE, msg |-> "key", requests |-> 1]
  ELSE IF cfg.api_url = "" THEN [valid |-> FALSE, msg |-> "url", requests |-> 1]
  ELSE IF cfg.model = "" THEN [valid |-> FALSE, msg |-> "model", requests |-> 1]
  ELSE [valid |-> TRUE, msg |-> "ok", requests |-> 1]
\* lines 36-58
ValidateConfig(cfg, test) ==
  IF cfg.api_url = "" THEN [valid |-> FALSE, msg |-> "url", requests |-> 0]
  ELSE IF cfg.api_key = "" THEN [valid |-> FALSE, msg |-> "key", requests |-> 0]
  ELSE IF cfg.model = "" THEN [valid |-> FALSE, msg |-> "model", requests |-> 0]
  ELSE [valid |-> test = "ok",
        msg |-> IF test = "ok" THEN "ok" ELSE IF test = "status" THEN "status" ELSE "exception",
        requests |-> 1]


(***************************************************************************)
(* AIConnector._fix_json.  A JSON text is a sequence of characters over    *)
(* the alphabet { } [ ] , : " space a 1.                                   *)
(***************************************************************************)

\* json.loads accepts the text s: a scan from character i with the stack
\* st of open containers, in mode m
\*   "value"  a value must start       "first"  after [ : a value or ]
\*   "key0"   after { : a key or }     "key"    after , in an object
\*   "inkey"  inside a key             "colon"  after a key
\*   "instr"  inside a string value    "num"    inside a number
\*   "after"  after a complete value
RECURSIVE Scan(_, _, _, _)
Scan(s, i, st, m) ==
  IF i > Len(s) THEN st = <<>> /\ m \in {"after", "num"}
  ELSE LET c == s[i]
           top == st[Len(st)]
           pop == SubSeq(st, 1, Len(st) - 1)
       IN CASE m = "instr" -> Scan(s, i + 1, st, IF c = "\"" THEN "after" ELSE "instr")
            [] m = "inkey" -> Scan(s, i + 1, st, IF c = "\"" THEN "colon" ELSE "inkey")
            [] m = "num" -> IF c = "1" THEN Scan(s, i + 1, st, "num") ELSE Scan(s, i, st, "after")
            [] c = " " /\ m \notin {"instr", "inkey", "num"} -> Scan(s, i + 1, st, m)
            [] m = "colon" /\ c # " " -> c = ":" /\ Scan(s, i + 1, st, "value")
            [] m \in {"key0", "key"} /\ c # " " ->
                 IF c = "\"" THEN Scan(s, i + 1, st, "inkey")
                 ELSE m = "key0" /\ c = "}" /\ Scan(s, i + 1, pop, "after")
            [] m \in {"value", "first"} /\ c # " " ->
                 IF c = "{" THEN Scan(s, i + 1, Append(st, "{"), "key0")
                 ELSE IF c = "[" THEN Scan(s, i + 1, Append(st, "["), "first")
                 ELSE IF c = "\"" THEN Scan(s, i + 1, st, "instr")
                 ELSE IF c = "1" THEN Scan(s, i + 1, st, "num")
                 ELSE m = "first" /\ c = "]" /\ Scan(s, i + 1, pop, "after")
            [] m = "after" /\ c # " " ->
                 /\ st # <<>>
                 /\ IF c = "," THEN Scan(s, i + 1, st, IF top = "{" THEN "key" ELSE "value")
                    ELSE IF c = "}" THEN top = "{" /\ Scan(s, i + 1, pop, "after")
                    ELSE c = "]" /\ top = "[" /\ Scan(s, i + 1, pop, "after")

\* json.loads(s) does not raise
IsJson(s) == Scan(s, 1, <<>>, "value")

\* the value json.loads(s) returns, written without the whitespace between
\* its tokens
RECURSIVE Strip(_, _, _)
Strip(s, i, inStr) ==
  IF i > Len(s) THEN <<>>
  ELSE IF s[i] = "\"" THEN <<"\"">> \o Strip(s, i + 1, ~inStr)
  ELSE IF s[i] = " " /\ ~inStr THEN Strip(s, i + 1, inStr)
  ELSE <<s[i]>> \o Strip(s, i + 1, inStr)
Loads(s) == Strip(s, 1, FALSE)

MinOf(S) == CHOOSE p \in S : \A q \in S : p <= q
MaxOf(S) == CHOOSE p \in S : \A q \in S : q <= p
Count(s, c) == Cardinality({k \in DOMAIN s : s[k] = c})
Repeat(c, n) == [k \in 1..n |-> c]

\* mutant: no whitespace is skipped
NextNonSpaceNone(s, j) == j
\* lines 292-294: the first index from j on that holds no whitespace
NextNonSpace(s, j) ==
  MinOf({k \in j..Len(s) + 1 : k = Len(s) + 1 \/ s[k] # " "})

\* lines 287-299: the positions of "}," followed, after whitespace, by "]"
ArrayEndPositions(s) ==
  {p \in 1..Len(s) - 1 :
     /\ s[p] = "}" /\ s[p + 1] = ","
     /\ LET j == NextNonSpace(s, p + 2) IN j <= Len(s) /\ s[j] = "]"}
\* line 304: the comma replaced by a space
CommaToSpace(s, p) == SubSeq(s, 1, p - 1) \o <<"}", " ">> \o SubSeq(s, p + 2, Len(s))

\* lines 316-321 and 369-374: the positions p whose characters p, p+1 are
\* one of the pairs
PairPositions(s, pairs) == {p \in 1..Len(s) - 1 : <<s[p], s[p + 1]>> \in pairs}
\* lines 326 and 375: a comma inserted after position p
InsertComma(s, p) == SubSeq(s, 1, p) \o <<",">> \o SubSeq(s, p + 1, Len(s))

\* lines 346 and 358: the missing closers appended
AppendClosers(s, open, close) == s \o Repeat(close, Count(s, open) - Count(s, close))

\* lines 385-388: cut after the last "}}" and close the list and the object
LastElementEnd(s) == LET P == PairPositions(s, {<<"}", "}">>}) IN IF P = {} THEN 0 ELSE MaxOf(P)
CutAfterLastElement(s) == SubSeq(s, 1, LastElementEnd(s) + 1) \o <<"]", "}">>

\* the positions of P, tried in ascending order, whose fix parses
ParsingPositions(s, P, Fix(_, _)) == {p \in P : IsJson(Fix(s, p))}

\* lines 273-398.  found: one of the repairs parsed; via: which one;
\* str: the string returned
FixJson(s) ==
  LET g1 == ParsingPositions(s, ArrayEndPositions(s), CommaToSpace)
      g2 == ParsingPositions(s, PairPositions(s, {<<"}", "{">>}), InsertComma)
      f3a == AppendClosers(s, "{", "}")
      f3b == AppendClosers(s, "[", "]")
      g4 == ParsingPositions(s, PairPositions(s, {<<"}", "{">>, <<"]", "[">>, <<"}", "[">>, <<"]", "{">>}),
                             InsertComma)
      f5 == CutAfterLastElement(s)
  IN IF g1 # {} THEN [found |-> TRUE, via |-> 1, str |-> CommaToSpace(s, MinOf(g1))]
     ELSE IF g2 # {} THEN [found |-> TRUE, via |-> 2, str |-> InsertComma(s, MinOf(g2))]
     ELSE IF Count(s, "{") > Count(s, "}") /\ IsJson(f3a) THEN [found |-> TRUE, via |-> 3, str |-> f3a]
     ELSE IF Count(s, "[") > Count(s, "]") /\ IsJson(f3b) THEN [found |-> TRUE, via |-> 3, str |-> f3b]
     ELSE IF g4 # {} THEN [found |-> TRUE, via |-> 4, str |-> InsertComma(s, MinOf(g4))]
     ELSE IF LastElementEnd(s) > 1 /\ IsJson(f5) THEN [found |-> TRUE, via |-> 5, str |-> f5]
     ELSE [found |-> FALSE, via |-> 0, str |-> s]


(***************************************************************************)
(* StructureAnalyzer.analyze_text_features.  A paragraph is its sequence   *)
(* of characters; "zh" stands for one CJK ideograph (U+4E00..U+9FA5),      *)
(* "zh." for the ideographic full stop and "zh," for one of the            *)
(* enumeration separators U+3001, U+FF0C, U+FF1A.  Indices count from 0   *)
(* as in the source.                                                       *)
(***************************************************************************)
\* structure_analyzer.py:67  float('inf'): above every paragraph length
Infinity == 1000000

Digits == {"0", "1", "2", "3", "4", "5", "6", "7", "8", "9"}
UpperLetters == {"A", "I", "K", "R", "T"}
LowerLetters == {"a", "b", "c", "d", "e", "f", "i", "k", "l", "m", "n", "o",
                 "p", "r", "s", "t", "u", "w", "y"}
\* lines 127 and 152: the characters of the punctuation string as written
PunctuationChars == {".", "!", "?", ";", ",", "u", "f", "0", "c", "1", "b", "3", "2"}

\* str.lower()
Lower(t) == [k \in DOMAIN t |->
               CASE t[k] = "A" -> "a" [] t[k] = "K" -> "k" [] t[k] = "R" -> "r"
                 [] t[k] = "I" -> "i" [] t[k] = "T" -> "t"
                 [] OTHER -> t[k]]
\* word in t
Contains(t, word) ==
  \E k \in 0..Len(t) - Len(word) : SubSeq(t, k + 1, k + Len(word)) = word
\* not para.strip()
IsBlank(t) == \A k \in DOMAIN t : t[k] = " "
\* any(p in paragraph for p in '...')
HasPunctuation(t) == \E k \in DOMAIN t : t[k] \in PunctuationChars

\* lines 16-33: the keywords that the characters above can spell
title_keywords == {<<"t", "i", "t", "l", "e">>}
abstract_keywords == {<<"a", "b", "s", "t", "r", "a", "c", "t">>,
                      <<"s", "u", "m", "m", "a", "r", "y">>}
keywords_keywords == {<<"k", "e", "y", "w", "o", "r", "d", "s">>}
references_keywords == {<<"r", "e", "f", "e", "r", "e", "n", "c", "e", "s">>}
HasKeyword(t, list) == \E w \in list : Contains(Lower(t), w)

\* the index after the longest run of characters of cls that starts at i
RunEnd(t, i, cls) ==
  MinOf({k \in i..Len(t) + 1 : k = Len(t) + 1 \/ t[k] \notin cls})
\* \d+\. matched from i: the index after the dot, 0 when it does not match
DigitsDot(t, i) ==
  IF i = 0 THEN 0
  ELSE LET e == RunEnd(t, i, Digits)
       IN IF e > i /\ e <= Len(t) /\ t[e] = "." THEN e + 1 ELSE 0
\* \s+.+ matched from i
SpaceThenText(t, i) == i >= 1 /\ i + 1 <= Len(t) /\ t[i] = " "
\* lines 36-44: re.match of one of numeric_title_patterns
MatchesNumericTitle(t) ==
  \/ SpaceThenText(t, DigitsDot(t, 1))
  \/ SpaceThenText(t, DigitsDot(t, DigitsDot(t, 1)))
  \/ SpaceThenText(t, DigitsDot(t, DigitsDot(t, DigitsDot(t, 1))))
  \/ LET e == RunEnd(t, 1, {"zh"})
         q == RunEnd(t, e, {" "})
     IN e > 1 /\ q <= Len(t) /\ t[q] = "zh," /\ q + 1 <= Len(t)
  \/ LET e == RunEnd(t, 2, Digits)
     IN Len(t) >= 1 /\ t[1] = "(" /\ e > 2 /\ e <= Len(t) /\ t[e] = ")"
        /\ SpaceThenText(t, e + 1)
  \/ Len(t) >= 2 /\ t[1] \in UpperLetters \cup LowerLetters /\ t[2] = "."
     /\ SpaceThenText(t, 3)

\* lines 101-130
IsPotentialTitle(t, index, total) ==
  IF Len(t) > 50 THEN FALSE
  ELSE IF index = 0 /\ Len(t) < 30 THEN TRUE
  ELSE IF HasKeyword(t, title_keywords) THEN TRUE
  ELSE Len(t) < 20 /\ ~HasPunctuation(t)

\* lines 132-155
IsPotentialSubtitle(t, index, total) ==
  \/ MatchesNumericTitle(t)
  \/ Len(t) < 30 /\ index < total - 1 /\ ~HasPunctuation(t)

\* lines 157-184: the section whose keyword list the paragraph matches
\* first, in the order abstract, keywords, references
SectionOf(t) ==
  IF HasKeyword(t, abstract_keywords) THEN "abstract"
  ELSE IF HasKeyword(t, keywords_keywords) THEN "keywords"
  ELSE IF HasKeyword(t, references_keywords) THEN "references"
  ELSE "none"

FeatureFields == {"paragraph_lengths", "potential_titles", "potential_subtitles",
                  "special_sections", "avg_length", "max_length", "min_length"}
\* lines 60-68.  fields: the keys of the dictionary; special_sections maps
\* the sections recorded to their index; total: total_length; avg_length
\* is total over count once it has been computed
NewFeatures ==
  [fields |-> FeatureFields, paragraph_lengths |-> <<>>, potential_titles |-> <<>>,
   potential_subtitles |-> <<>>, special_sections |-> <<>>, total |-> 0,
   avg_length |-> [num |-> 0, den |-> 1], max_length |-> 0, min_length |-> Infinity]
\* line 58: return {}
EmptyFeatures == [NewFeatures EXCEPT !.fields = {}, !.min_length = 0]

\* special_sections[section] = index
Record(ss, section, index) ==
  [x \in DOMAIN ss \cup {section} |-> IF x = section THEN index ELSE ss[x]]

\* lines 72-92: the body of the loop for the paragraph of index i
AnalyzeParagraph(f, paras, i) ==
  LET t == paras[i + 1]
      n == Len(paras)
      isTitle == IsPotentialTitle(t, i, n)
      isSub == ~isTitle /\ IsPotentialSubtitle(t, i, n)
      sec == SectionOf(t)
  IN IF IsBlank(t) THEN f
     ELSE [f EXCEPT
             !.paragraph_lengths = Append(@, Len(t)),
             !.total = @ + Len(t),
             !.max_length = IF Len(t) > @ THEN Len(t) ELSE @,
             !.min_length = IF Len(t) < @ THEN Len(t) ELSE @,
             !.potential_titles = IF isTitle THEN Append(@, i) ELSE @,
             !.potential_subtitles = IF isSub THEN Append(@, i) ELSE @,
             !.special_sections = IF sec = "none" THEN @ ELSE Record(@, sec, i)]

RECURSIVE AnalyzeLoop(_, _, _)
AnalyzeLoop(f, paras, i) ==
  IF i >= Len(paras) THEN f ELSE AnalyzeLoop(AnalyzeParagraph(f, paras, i), paras, i + 1)

\* lines 46-99
AnalyzeTextFeatures(paras) ==
  IF paras = <<>> THEN EmptyFeatures
  ELSE LET f == AnalyzeLoop(NewFeatures, paras, 0)
       IN IF f.paragraph_lengths # <<>>
            THEN [f EXCEPT !.avg_length = [num |-> f.total, den |-> Len(f.paragraph_lengths)]]
            ELSE f

\* i in list
InSeq(x, seq) == \E k \in DOMAIN seq : seq[k] = x

\* generate_structure_hints.  A hint is None or a pair of indices (an index
\* i is the pair (i, i)).
None == [none |-> TRUE, a |-> 0, b |-> 0]
Some(a, b) == [none |-> FALSE, a |-> a, b |-> b]
\* lines 195-202
NewHints == [title_index |-> None, abstract_range |-> None, keywords_index |-> None,
             references_range |-> None, section_titles |-> <<>>,
             subsection_titles |-> <<>>]

\* lines 215-221: the index at which the scan from abstract_start + 1 up to
\* len(paragraph_lengths) - 1 breaks, and abstract_end
AbstractEnd(features, abstract_start) ==
  LET stops == {i \in (abstract_start + 1)..(Len(features.paragraph_lengths) - 1) :
                  \/ InSeq(i, features.potential_titles)
                  \/ InSeq(i, features.potential_subtitles)
                  \/ /\ "keywords" \in DOMAIN features.special_sections
                     /\ i = features.special_sections["keywords"]}
  IN IF stops = {} THEN abstract_start ELSE MinOf(stops) - 1

\* lines 186-239; features.get(...) of an absent key is the empty value the
\* record of {} holds
GenerateStructureHints(features) ==
  LET ss == features.special_sections
  IN [title_index |-> IF features.potential_titles # <<>>
                        THEN Some(features.potential_titles[1], features.potential_titles[1])
                        ELSE None,
      abstract_range |-> IF "abstract" \in DOMAIN ss
                           THEN Some(ss["abstract"], AbstractEnd(features, ss["abstract"]))
                           ELSE None,
      keywords_index |-> IF "keywords" \in DOMAIN ss
                           THEN Some(ss["keywords"], ss["keywords"])
                           ELSE None,
      references_range |-> IF "references" \in DOMAIN ss
                             THEN Some(ss["references"], Len(features.paragraph_lengths) - 1)
                             ELSE None,
      section_titles |-> IF features.potential_titles # <<>>
                           THEN Tail(features.potential_titles)
                           ELSE <<>>,
      subsection_titles |-> features.potential_subtitles]


(***************************************************************************)
(* DocProcessor._apply_paragraph_format: line spacing and alignment.  A    *)
(* number is the double the interpreter holds for a decimal literal of h   *)
(* hundredths: the value h/100 + e * 10^-19, e the representation error of *)
(* the nearest double; nan marks the value NaN, which json.loads accepts.  *)
(* The integers 1, 2, 3 are the numbers Double(100), Double(200),          *)
(* Double(300).  A subtraction of two doubles within a factor two of each  *)
(* other is exact; elsewhere its rounding error (below 10^-15) is far from *)
(* deciding a comparison with 0.1, so differences are taken exactly.       *)
(***************************************************************************)
ExactHundredths == {-100, 0, 50, 100, 150, 200, 300, 500}

Double(h) ==
  [h |-> h, nan |-> FALSE,
   e |-> IF h \in ExactHundredths THEN 0
         ELSE CASE h = 10 -> 56 [] h = 79 -> 355 [] h = 80 -> 444 [] h = 81 -> 533
            [] h = 89 -> 133 [] h = 90 -> 222 [] h = 91 -> 311 [] h = 109 -> 799
            [] h = 110 -> 888 [] h = 111 -> 977 [] h = 139 -> -977 [] h = 140 -> -888
            [] h = 141 -> -799 [] h = 145 -> -444 [] h = 155 -> 444 [] h = 159 -> 799
            [] h = 160 -> 888 [] h = 161 -> 977 [] h = 189 -> -977 [] h = 190 -> -888
            [] h = 191 -> -799 [] h = 209 -> -1421 [] h = 210 -> 888 [] h = 211 -> -1243
            [] h = 299 -> 2132 [] h = 301 -> -2132]

NaN == [h |-> 0, nan |-> TRUE, e |-> 0]

\* a < b on doubles; every comparison with NaN is false
Less(a, b) ==
  /\ ~a.nan
  /\ ~b.nan
  /\ a.h < b.h \/ (a.h = b.h /\ a.e < b.e)

\* abs(a - b)
Distance(a, b) ==
  LET d == [h |-> a.h - b.h, nan |-> a.nan \/ b.nan, e |-> a.e - b.e]
  IN IF d.h < 0 \/ (d.h = 0 /\ d.e < 0)
       THEN [d EXCEPT !.h = -d.h, !.e = -d.e]
       ELSE d

NearWide(x, c) == Less(Distance(x, Double(c)), Double(80))

\* abs(line_spacing - c) < 0.1
Near(x, c) == Less(Distance(x, Double(c)), Double(10))

\* The value under "line_spacing" of the format record: kind "absent" (no
\* such key), "text" (a value that is neither int nor float), "number".
\* The rule the paragraph is given, "unset" when none is assigned.
LineSpacingRule(ls) ==
  LET line_spacing == IF ls.kind = "absent" THEN Double(150) ELSE ls.num
  IN IF ls.kind = "text" THEN "unset"
     ELSE LET x == IF Less(Double(300), line_spacing) \/ Less(line_spacing, Double(80))
                     THEN Double(150)
                     ELSE line_spacing
          IN IF Near(x, 100) THEN "SINGLE"
             ELSE IF Near(x, 150) THEN "ONE_POINT_FIVE"
             ELSE IF Near(x, 200) THEN "DOUBLE"
             ELSE "ONE_POINT_FIVE"

\* The value under "alignment", "absent" when there is no such key.
Alignment(al) ==
  LET alignment == IF al = "absent" THEN "left" ELSE al
  IN IF alignment = "center" THEN "CENTER"
     ELSE IF alignment = "right" THEN "RIGHT"
     ELSE IF alignment = "justify" THEN "JUSTIFY"
     ELSE "LEFT"


(***************************************************************************)
(* FormatManager: save_template, load_templates, delete_template.  A       *)
(* template is a record: name is the value under its key "name", "none"    *)
(* when it has no such key; body stands for the rest of it.  The file of   *)
(* template n is n.json; NoTemplate marks a missing file or key.           *)
(***************************************************************************)
TemplateNames == {"a", "b"}
TemplateBodies == {"rules1", "rules2"}
NoTemplate == [name |-> "none", body |-> "none"]
TemplateContents == [name : TemplateNames \cup {"none"}, body : TemplateBodies]

\* format_manager.py:149-150
WithName(template_name, template_content) ==
  IF template_content.name = "none"
    THEN [template_content EXCEPT !.name = template_name]
    ELSE template_content

\* format_manager.py:70: the key a loaded file is stored under
TemplateKey(filename, template) ==
  IF template.name = "none" THEN filename ELSE template.name

\* format_manager.py:64-76: the dictionaries load_templates can build from
\* the directory dir; of two files with the same key the one os.listdir
\* names last stays
LoadedTemplates(dir) ==
  {t \in [TemplateNames -> TemplateContents \cup {NoTemplate}] :
     \A k \in TemplateNames :
        LET from == {n \in TemplateNames :
                       dir[n] # NoTemplate /\ TemplateKey(n, dir[n]) = k}
        IN IF from = {} THEN t[k] = NoTemplate
           ELSE \E n \in from : t[k] = dir[n]}



(***************************************************************************)
(* Payload extraction: AIConnector.parse_response (the span it hands to    *)
(* json.loads) and TextTemplateParser._extract_json_from_content.  A reply *)
(* is a sequence over { } a (prose) space and f, which stands for one code *)
(* fence ```.  Positions count from 1; 0 stands for -1 (not found).        *)
(***************************************************************************)
Positions(s, c) == {k \in DOMAIN s : s[k] = c}

\* str.strip()
StripEnds(s) ==
  LET K == {k \in DOMAIN s : s[k] # " "}
  IN IF K = {} THEN <<>> ELSE SubSeq(s, MinOf(K), MaxOf(K))

\* ai_connector.py:438-443: from the first { to the last }
JsonContent(content) ==
  LET O == Positions(content, "{")
      C == Positions(content, "}")
  IN IF O # {} /\ C # {}
       THEN [found |-> TRUE, str |-> SubSeq(content, MinOf(O), MaxOf(C))]
       ELSE [found |-> FALSE, str |-> <<>>]

\* text_template_parser.py:254-266: the scan that counts braces
RECURSIVE BraceScan(_, _, _, _)
BraceScan(content, i, brace_count, start_pos) ==
  IF i > Len(content) THEN [found |-> FALSE, str |-> <<>>]
  ELSE IF content[i] = "{"
    THEN BraceScan(content, i + 1, brace_count + 1,
                   IF brace_count = 0 THEN i ELSE start_pos)
  ELSE IF content[i] = "}"
    THEN IF brace_count - 1 = 0 /\ start_pos # 0
           THEN [found |-> TRUE, str |-> SubSeq(content, start_pos, i)]
           ELSE BraceScan(content, i + 1, brace_count - 1, start_pos)
  ELSE BraceScan(content, i + 1, brace_count, start_pos)

\* re.search(r'\{[\s\S]*?\}'): the first { that a } follows, up to the
\* first } after it
BracePattern(content) ==
  LET O == Positions(content, "{")
      C == IF O = {} THEN {} ELSE {c \in Positions(content, "}") : c > MinOf(O)}
  IN IF C # {}
       THEN [found |-> TRUE, str |-> SubSeq(content, MinOf(O), MinOf(C))]
       ELSE [found |-> FALSE, str |-> <<>>]

\* re.search(r'```\s*([\s\S]*?)```'): what the first two fences enclose,
\* stripped.  (No reply of the alphabet holds the tag of the pattern
\* ```json, which is tried before this one with the same result.)
FencePattern(content) ==
  LET F == Positions(content, "f")
      G == IF F = {} THEN {} ELSE {g \in F : g > MinOf(F)}
  IN IF G # {}
       THEN [found |-> TRUE, str |-> StripEnds(SubSeq(content, MinOf(F) + 1, MinOf(G) - 1))]
       ELSE [found |-> FALSE, str |-> <<>>]

\* text_template_parser.py:286
HasBraces(s) == Positions(s, "{") # {} /\ Positions(s, "}") # {}

ExtractJsonFromContent(content) ==
  LET m1 == BraceScan(content, 1, 0, 0)
      m2 == BracePattern(content)
      m3 == FencePattern(content)
  IN IF m1.found THEN m1.str
     ELSE IF m2.found /\ HasBraces(m2.str) THEN m2.str
     ELSE IF m3.found /\ HasBraces(m3.str) THEN m3.str
     ELSE StripEnds(content)



(***************************************************************************)
(* DocProcessor._apply_font.  Size names are written in ASCII: "Chu" the   *)
(* initial size, "One" to "Eight" sizes one to eight, "Small..." the small *)
(* size of that number.  A size is in tenths of a point; 0 stands for None *)
(* (the run has no size of its own).  "absent" is a key that is missing.   *)
(***************************************************************************)
\* doc_processor.py:31-40
font_size_mapping ==
  [n \in {"SmallTwo", "Three", "SmallThree", "Four", "SmallFour", "Five",
          "SmallFive", "Six"} |->
     CASE n = "SmallTwo" -> 180 [] n = "Three" -> 160 [] n = "SmallThree" -> 150
       [] n = "Four" -> 140 [] n = "SmallFour" -> 120 [] n = "Five" -> 105
       [] n = "SmallFive" -> 90 [] n = "Six" -> 75]

\* format_manager.py:29-46 and text_template_parser.py:25-42: the names
\* the template side accepts
TemplateSizeNames ==
  {"Chu", "SmallChu", "One", "SmallOne", "Two", "SmallTwo", "Three", "SmallThree",
   "Four", "SmallFour", "Five", "SmallFive", "Six", "SmallSix", "Seven", "Eight"}

\* values under "size" that are not strings
NumericSizes == {"12", "10.5"}

\* doc_processor.py:273: the fonts mapped to a document font
safe_fonts ==
  [n \in {"songti", "heiti", "kaiti", "fangsong"} |->
     CASE n = "songti" -> "SimSun" [] n = "heiti" -> "SimHei"
       [] n = "kaiti" -> "KaiTi" [] n = "fangsong" -> "FangSong"]

\* a run as add_run returns it
NewRun == [name |-> "none", size |-> 0, bold |-> "none"]

\* doc_processor.py:255-333 (italic and underline are set like bold)
ApplyFont(run, format_info) ==
  LET font_name == IF format_info.font = "absent" THEN "songti" ELSE format_info.font
      font_size == IF format_info.size = "absent" THEN "SmallFour" ELSE format_info.size
      bold == IF format_info.bold = "absent" THEN "False" ELSE format_info.bold
  IN [name |-> IF font_name \in DOMAIN safe_fonts THEN safe_fonts[font_name] ELSE font_name,
      size |-> IF font_size \notin NumericSizes /\ font_size \in DOMAIN font_size_mapping
                 THEN font_size_mapping[font_size]
                 ELSE run.size,
      bold |-> bold]


(***************************************************************************)
(* State.                                                                  *)
(***************************************************************************)
VARIABLES
  window,            \* "v1" MainWindow, "v2" MainWindowV2, "none" no window
  config,            \* the API settings of the AIConnector
  env,               \* what the surroundings can do: the replies and
                     \* request outcomes of the AI service, the results
                     \* of file operations (TRUE success)
  workers,           \* the FormattingWorker threads created so far
  formatting_worker, \* the window's reference to a worker, 0 for None
  start_btn,         \* MainWindow.start_btn / DocumentPanel.format_btn enabled
  stop_btn,          \* stop button enabled
  is_processing,     \* StatusPanel._is_processing
  waiting,           \* MainWindowV2 is inside formatting_worker.wait(3000)
  delivered,         \* task_completed signals the window has handled
  starts,            \* start requests handled so far
  testRequests,      \* HTTP requests issued by validate_config
  lastConfigCheck,   \* the result of the last validate_config
  backups,           \* backup files written
  outputs,           \* output files written
  files,             \* the names that exist in the output directory
  clock,             \* the time of day, in seconds
  vs,                \* a direct call of validate_structure: input and result
  fx,                \* direct calls of _fix_json: input and results
  af,                \* a direct call of analyze_text_features
  pf,                \* a direct call of _apply_paragraph_format
  fm,                \* a FormatManager: its templates and its directory
  ex,                \* direct calls of the two payload extractions
  hs,                \* a call of generate_structure_hints on the features in af
  ft                 \* a direct call of _apply_font

uiVars == <<window, config, formatting_worker, start_btn, stop_btn,
            is_processing, waiting, delivered, starts, testRequests, lastConfigCheck>>
fsVars == <<backups, outputs, files, clock>>
vars == <<window, config, env, workers, formatting_worker, start_btn,
          stop_btn, is_processing, waiting, delivered, starts, testRequests,
          lastConfigCheck, backups, outputs, files, clock, vs, fx, af, pf, fm, ex, hs, ft>>
\* the records of the direct calls of pure functions other than
\* validate_structure
\* the objects used by direct calls only
callVars == <<fm, ex, hs, ft>>
exceptFm == <<ex, hs, ft>>
exceptEx == <<fm, hs, ft>>
exceptHs == <<fm, ex, ft>>
exceptFt == <<fm, ex, hs>>
pureVars == <<fx, af, pf, callVars>>

\* file_utils.py:28 and 54: the output name of the input file, without a
\* timestamp (stamp -1) or with the timestamp of second stamp
OutputName(stamp) == [stamp |-> stamp]
BaseName == OutputName(-1)
\* the path of the input document itself
InputPath == [stamp |-> -2]

\* is_valid_docx (file_utils.py:95-96) accepts the extension in any case
InputExtensions == {".docx", ".DOCX"}

\* doc_processor.py:160-164, without a custom save path:
\* input_file.replace('.docx', '_formatted.docx') leaves a path without
\* the lower-case '.docx' as it is
FallbackName(ext) == IF ext = ".docx" THEN BaseName ELSE InputPath

\* file_utils.py:49-58: the timestamp is appended when the name exists
GenerateOutputFilename(existing, now) ==
  IF BaseName \in existing THEN OutputName(now) ELSE BaseName

\* mutant: a failed backup ends apply_formatting
BackupBlocksOnFailure(backup_ok) == ~backup_ok
\* doc_processor.py:119-120: the result of backup_file is only logged
BackupBlocks(backup_ok) == FALSE

\* the stages of FormattingWorker.run, in the order of the source
StageOrder == <<"read", "analyze", "prompt", "send", "parse", "validate", "apply">>

\* main_window.py:162-171  a worker as constructed; the fields after
\* is_running are the locals of run and of apply_formatting
NewWorker ==
  [ts |-> "new", pc |-> "begin", is_running |-> FALSE,
   trace |-> <<>>, posts |-> 0, outcome |-> "none", sendOk |-> FALSE, parseOk |-> FALSE,
   reply |-> NoReply, instr |-> NoStruct, valid |-> "none",
   docLoaded |-> FALSE, i |-> 0, paras |-> <<>>, calls |-> <<>>,
   batches |-> 0, backup |-> "none", nameVia |-> "none", output_file |-> BaseName, out |-> 0,
   ext |-> ".docx", last |-> "none",
   applyRet |-> "none", failWhy |-> "none", emits |-> <<>>]
\* emits: the arguments of the task_completed signals emitted; last: the
\* signal emitted last (progress_updated, log_message, task_completed)

\* the thread exists and has not ended
Live(w) == workers[w].ts \in {"running", "killing"}
\* QThread.isRunning()
IsRunning(w) == workers[w].ts \in {"running", "killing"}

At(w, p) == w \in DOMAIN workers /\ Live(w) /\ workers[w].pc = p

\* mutant: an early return emits nothing
EarlyReturnSilent(wr) ==
  [wr EXCEPT !.pc = "done", !.ts = "finished"]
\* an early return of run: task_completed(False, ...) is emitted and run
\* returns without touching is_running (lines 186-188, 219-221, 229-231,
\* 249-251, 255-257)
EarlyReturn(wr) ==
  [wr EXCEPT !.pc = "done", !.ts = "finished", !.emits = Append(@, FALSE),
             !.last = "task_completed"]

\* lines 267-272 after an exception, lines 265-272 after success
FinalReturn(wr, success) ==
  [wr EXCEPT !.pc = "done", !.ts = "finished", !.is_running = FALSE,
             !.emits = Append(@, success), !.last = "task_completed"]

(***************************************************************************)
(* FormattingWorker.run, stage by stage.                                   *)
(***************************************************************************)
\* lines 175-182
RunBegin(w) ==
  /\ At(w, "begin")
  /\ workers' = [workers EXCEPT ![w].is_running = TRUE, ![w].last = "log_message",
                                ![w].pc = "read"]
  /\ UNCHANGED <<uiVars, fsVars, env, vs, pureVars>>

\* lines 184-188, doc_processor.py:54-68
RunRead(w) ==
  /\ At(w, "read")
  /\ \E ok \in env.io :
       LET wr == [workers[w] EXCEPT !.trace = Append(@, "read"), !.last = "log_message"]
       IN workers' = [workers EXCEPT ![w] =
            IF ok THEN [wr EXCEPT !.pc = "analyze", !.docLoaded = TRUE]
            ELSE EarlyReturn(wr)]
  /\ UNCHANGED <<uiVars, fsVars, env, vs, pureVars>>

\* lines 190-200
RunAnalyze(w) ==
  /\ At(w, "analyze")
  /\ workers' = [workers EXCEPT ![w].trace = Append(@, "analyze"), ![w].last = "log_message", ![w].pc = "prompt"]
  /\ UNCHANGED <<uiVars, fsVars, env, vs, pureVars>>

\* lines 202-211
RunPrompt(w) ==
  /\ At(w, "prompt")
  /\ workers' = [workers EXCEPT ![w].trace = Append(@, "prompt"), ![w].last = "log_message", ![w].pc = "send"]
  /\ UNCHANGED <<uiVars, fsVars, env, vs, pureVars>>

\* lines 213-221, ai_connector.py:190-271
RunSend(w) ==
  /\ At(w, "send")
  /\ \E outcome \in env.outcomes, reply \in env.replies :
       LET wr == [workers[w] EXCEPT !.trace = Append(@, "send"), !.last = "log_message",
                                    !.outcome = outcome,
                                    !.posts = @ + PostsIssued(outcome)]
       IN workers' = [workers EXCEPT ![w] =
            IF SendSucceeds(outcome)
              THEN [wr EXCEPT !.pc = "parse", !.sendOk = TRUE, !.reply = reply]
              ELSE EarlyReturn(wr)]
  /\ UNCHANGED <<uiVars, fsVars, env, vs, pureVars>>

\* lines 223-231
RunParse(w) ==
  /\ At(w, "parse")
  /\ LET wr == [workers[w] EXCEPT !.trace = Append(@, "parse"), !.last = "log_message"]
         r == ParseResponse(wr.reply)
     IN workers' = [workers EXCEPT ![w] =
          IF r.ok THEN [wr EXCEPT !.pc = "validate", !.parseOk = TRUE, !.instr = r.instr]
          ELSE EarlyReturn(wr)]
  /\ UNCHANGED <<uiVars, fsVars, env, vs, pureVars>>

\* lines 236-243: an invalid structure is logged and the run goes on; an
\* exception of validate_structure is caught at 267
AfterValidate(wr, v) ==
  IF v.res = "raised"
    THEN FinalReturn([wr EXCEPT !.valid = v.res, !.instr = v.struct], FALSE)
    ELSE [wr EXCEPT !.pc = "apply", !.valid = v.res, !.instr = v.struct]

\* lines 233-239
RunValidate(w) ==
  /\ At(w, "validate")
  /\ LET wr == [workers[w] EXCEPT !.trace = Append(@, "validate"), !.last = "log_message"]
     IN workers' = [workers EXCEPT ![w] = AfterValidate(wr, ValidateStructure(wr.instr))]
  /\ UNCHANGED <<uiVars, fsVars, env, vs, pureVars>>

\* lines 179-269: a statement of the analysis or prompt stage raises; the
\* handler at 267-272 ends the run
RunUnexpected(w) ==
  /\ At(w, "analyze") \/ At(w, "prompt")
  /\ workers' = [workers EXCEPT ![w] = FinalReturn(@, FALSE)]
  /\ UNCHANGED <<uiVars, fsVars, env, vs, pureVars>>


(***************************************************************************)
(* DocProcessor.apply_formatting, step by step, in the frame of the        *)
(* thread that called it.  i counts the elements the loop is done with;    *)
(* calls lists the indices handed to _process_element; paras is new_doc.   *)
(***************************************************************************)
ApplyFail(wr, why) == [wr EXCEPT !.pc = "applied", !.applyRet = "false", !.failWhy = why]

Total(wr) == Len(ApplyElements(wr.instr))

\* where the loop goes once i elements are done
AfterElement(i, total) == IF BatchEnds(i, total) THEN "batch" ELSE "loop"

\* doc_processor.py:94-132
ApplyEnter(w) ==
  /\ At(w, "apply")
  /\ LET wr == [workers[w] EXCEPT !.trace = Append(@, "apply")]
     IN IF ~wr.docLoaded
          THEN /\ workers' = [workers EXCEPT ![w] = ApplyFail(wr, "nodoc")]
               /\ UNCHANGED backups
        ELSE IF ~ApplyAccepts(wr.instr)
          THEN /\ workers' = [workers EXCEPT ![w] = ApplyFail(wr, "shape")]
               /\ UNCHANGED backups
        ELSE \E bk \in env.io, newdoc \in env.io :
               /\ backups' = IF bk THEN backups + 1 ELSE backups
               /\ workers' = [workers EXCEPT ![w] =
                    LET wb == [wr EXCEPT !.backup = IF bk THEN "ok" ELSE "failed"]
                    IN IF BackupBlocks(bk) THEN ApplyFail(wb, "backup")
                       ELSE IF ~newdoc THEN ApplyFail(wb, "newdoc")
                       ELSE [wb EXCEPT !.pc = IF Total(wr) = 0 THEN "name" ELSE "loop"]]
  /\ UNCHANGED <<uiVars, outputs, files, clock, env, vs, pureVars>>

\* doc_processor.py:139-143 and 198-222: the element is looked at and, when
\* it is a record with sliceable content, a paragraph is added
ProcessElementAdd(w) ==
  /\ At(w, "loop")
  /\ workers[w].i < Total(workers[w])
  /\ LET wr == workers[w]
         k == wr.i + 1
         e == ApplyElements(wr.instr)[k]
         wc == [wr EXCEPT !.calls = Append(@, k)]
     IN workers' = [workers EXCEPT ![w] =
          IF AddsParagraph(e)
            THEN [wc EXCEPT !.pc = "elem",
                            !.paras = Append(@, [src |-> k, run |-> FALSE, formatted |-> FALSE])]
            ELSE LET n == NextIndex(wr.i, TRUE, Total(wr))
                 IN [wc EXCEPT !.i = n, !.pc = AfterElement(n, Total(wr))]]
  /\ UNCHANGED <<uiVars, fsVars, env, vs, pureVars>>

\* doc_processor.py:225-253: the run is added and formatted; when add_run
\* raises the paragraph stays as it is
ProcessElementFormat(w) ==
  /\ At(w, "elem")
  /\ LET wr == workers[w]
         e == ApplyElements(wr.instr)[wr.i + 1]
         ok == RunSucceeds(e)
         n == NextIndex(wr.i, ~ok, Total(wr))
         last == Len(wr.paras)
     IN workers' = [workers EXCEPT ![w] =
          [wr EXCEPT !.i = n, !.pc = AfterElement(n, Total(wr)),
                     !.paras = IF ok THEN [@ EXCEPT ![last].run = TRUE, ![last].formatted = TRUE]
                               ELSE @]]
  /\ UNCHANGED <<uiVars, fsVars, env, vs, pureVars>>

\* doc_processor.py:148-151
BatchEnd(w) ==
  /\ At(w, "batch")
  /\ workers' = [workers EXCEPT ![w].batches = @ + 1,
                                ![w].pc = IF workers[w].i < Total(workers[w]) THEN "loop" ELSE "name"]
  /\ UNCHANGED <<uiVars, fsVars, env, vs, pureVars>>

\* doc_processor.py:153-165: generate_output_filename, or the name without
\* timestamp when it raises
GenerateOutputName(w) ==
  /\ At(w, "name")
  /\ \E ok \in env.io :
       workers' = [workers EXCEPT ![w].nameVia = IF ok THEN "generated" ELSE "fallback",
                                  ![w].output_file = IF ok THEN GenerateOutputFilename(files, clock)
                                                     ELSE FallbackName(workers[w].ext),
                                  ![w].pc = "save"]
  /\ UNCHANGED <<uiVars, fsVars, env, vs, pureVars>>

\* doc_processor.py:168-175: the output directory is made and the file opened
SaveBegin(w) ==
  /\ At(w, "save")
  /\ \E dirOk \in env.io :
       IF dirOk
         THEN /\ outputs' = Append(outputs, [by |-> w, paras |-> Len(workers[w].paras),
                                             complete |-> FALSE,
                                             name |-> workers[w].output_file,
                                             existed |-> workers[w].output_file \in files])
              /\ files' = files \cup {workers[w].output_file}
              /\ workers' = [workers EXCEPT ![w].pc = "saving", ![w].out = Len(outputs) + 1]
         ELSE /\ workers' = [workers EXCEPT ![w] = ApplyFail(@, "dir")]
              /\ UNCHANGED <<outputs, files>>
  /\ UNCHANGED <<uiVars, backups, clock, env, vs, pureVars>>

\* doc_processor.py:175-180: the write ends
SaveEnd(w) ==
  /\ At(w, "saving")
  /\ \E ok \in env.io :
       IF ok
         THEN /\ outputs' = [outputs EXCEPT ![workers[w].out].complete = TRUE]
              /\ workers' = [workers EXCEPT ![w].pc = "applied", ![w].applyRet = "true"]
         ELSE /\ workers' = [workers EXCEPT ![w] = ApplyFail(@, "save")]
              /\ UNCHANGED outputs
  /\ UNCHANGED <<uiVars, backups, files, clock, env, vs, pureVars>>

\* main_window.py:246-272
RunAfterApply(w) ==
  /\ At(w, "applied")
  /\ workers' = [workers EXCEPT ![w] =
       IF @.applyRet = "true" THEN FinalReturn(@, TRUE) ELSE EarlyReturn(@)]
  /\ UNCHANGED <<uiVars, fsVars, env, vs, pureVars>>

(***************************************************************************)
(* apply_formatting called directly with any instruction list.             *)
(***************************************************************************)
BadElems == {NonDictElem, NumberElem, NumListElem}

BadAssign(n) == UNION {[S -> BadElems] : S \in {T \in SUBSET (1..n) : Cardinality(T) <= MaxBad}}
ListsOfLen(n) == {[k \in 1..n |-> IF k \in DOMAIN b THEN b[k] ELSE GoodElem] : b \in BadAssign(n)}
ApplyLists == UNION {ListsOfLen(n) : n \in 0..MaxApplyElems}
ApplyStructs == {MkStruct(k, <<>>) : k \in {"none", "nondict", "emptydict", "noelements", "elemsnull", "elemsnum"}}
                \cup {MkStruct("list", es) : es \in ApplyLists}

MkEnv(rs, os, io) == [replies |-> rs, outcomes |-> os, io |-> io]

NoCheck == [valid |-> FALSE, msg |-> "none", requests |-> 0]
NoCall == [input |-> NoStruct, res |-> "none", struct |-> NoStruct]
NoAnalysis == [input |-> <<>>, done |-> FALSE, out |-> EmptyFeatures]
NoFixResult == [found |-> FALSE, via |-> 0, str |-> <<>>]
\* FormatManager.__init__ on an empty templates directory
NoTemplates == [files |-> [n \in TemplateNames |-> NoTemplate],
                templates |-> [n \in TemplateNames |-> NoTemplate],
                last |-> [name |-> "none", content |-> NoTemplate, ok |-> FALSE],
                phase |-> "new", saves |-> 0]
NoExtraction == [content |-> <<>>, pr_done |-> FALSE, pr |-> [found |-> FALSE, str |-> <<>>],
                 tp_done |-> FALSE, tp |-> <<>>]
NoHints == [done |-> FALSE, out |-> NewHints]
NoFont == [format_info |-> [font |-> "absent", size |-> "absent", bold |-> "absent"],
           done |-> FALSE, run |-> NewRun]
InitCalls ==
  /\ fm = NoTemplates
  /\ ex = NoExtraction
  /\ hs = NoHints
  /\ ft = NoFont
NoFormat == [line_spacing |-> [kind |-> "absent", num |-> NaN], alignment |-> "absent",
             done |-> FALSE, rule |-> "unset", align |-> "unset"]
NoFix == [how |-> "none", origin |-> <<>>, input |-> <<>>, calls |-> 0,
          out |-> NoFixResult, again |-> NoFixResult]

IdleUI ==
  /\ window = "none"
  /\ config = [api_url |-> "set", api_key |-> "set", model |-> "set"]
  /\ formatting_worker = 0
  /\ start_btn = FALSE
  /\ stop_btn = FALSE
  /\ is_processing = FALSE
  /\ waiting = FALSE
  /\ delivered = {}
  /\ starts = 0
  /\ testRequests = 0
  /\ lastConfigCheck = NoCheck

InitApply ==
  /\ IdleUI
  /\ env = MkEnv({}, {}, BOOLEAN)
  /\ backups = 0
  /\ outputs = <<>>
  /\ files = {}
  /\ clock = 0
  /\ vs = NoCall
  /\ fx = NoFix
  /\ af = NoAnalysis
  /\ InitCalls
  /\ pf = NoFormat
  /\ \E s \in ApplyStructs, loaded \in BOOLEAN :
       workers = <<[NewWorker EXCEPT !.ts = "running", !.pc = "apply",
                                     !.docLoaded = loaded, !.instr = s]>>

NextApply ==
  \E w \in DOMAIN workers :
    \/ ApplyEnter(w)
    \/ ProcessElementAdd(w)
    \/ ProcessElementFormat(w)
    \/ BatchEnd(w)
    \/ GenerateOutputName(w)
    \/ SaveBegin(w)
    \/ SaveEnd(w)

SpecApply == InitApply /\ [][NextApply]_vars


(***************************************************************************)
(* validate_structure called directly with any structure.                  *)
(***************************************************************************)
ValElems == {GoodElem, NonDictElem, NumberElem, NumListElem, EmptyFmtElem,
             PartialFmtElem, NoTypeElem, NoContentElem, NoFormatElem}
ValStructs == {MkStruct(k, <<>>) : k \in {"none", "nondict", "emptydict", "noelements", "elemsnull", "elemsnum"}}
              \cup {MkStruct("list", es) : es \in SeqsUpTo(ValElems, MaxValElems)}

\* structure_analyzer.py:241-279
ValidateCall ==
  /\ vs.res = "none"
  /\ LET v == ValidateStructure(vs.input)
     IN vs' = [vs EXCEPT !.res = v.res, !.struct = v.struct]
  /\ UNCHANGED <<uiVars, fsVars, env, workers, pureVars>>

InitValidate ==
  /\ IdleUI
  /\ env = MkEnv({}, {}, {})
  /\ backups = 0
  /\ outputs = <<>>
  /\ files = {}
  /\ clock = 0
  /\ workers = <<>>
  /\ \E s \in ValStructs : vs = [NoCall EXCEPT !.input = s]
  /\ fx = NoFix
  /\ af = NoAnalysis
  /\ InitCalls
  /\ pf = NoFormat

NextValidate == ValidateCall

SpecValidate == InitValidate /\ [][NextValidate]_vars


(***************************************************************************)
(* _fix_json called directly.  The payloads are objects holding one list   *)
(* of records, as parse_response expects them; the texts handed to         *)
(* _fix_json are these payloads as they are, with a comma after the last   *)
(* element, with the comma between two elements left out, or cut short.    *)
(***************************************************************************)
StrChars == {"{", "}", "]", ","}
Str(c) == <<"\"">> \o c \o <<"\"">>
Obj(v) == <<"{">> \o Str(<<"a">>) \o <<":">> \o v \o <<"}">>
\* a record holding a record
PlainElem == Obj(Obj(<<"1">>))
\* the records holding a text
TextElems == {Obj(Str(c)) : c \in SeqsUpTo(StrChars, MaxStrLen)}
\* the non-empty lists of at most MaxFixElems records of which at most one
\* holds a text
FixLists ==
  LET plain == {[k \in 1..n |-> PlainElem] : n \in 1..MaxFixElems}
  IN plain \cup {[es EXCEPT ![k] = t] : <<es, k, t>> \in
                    {x \in plain \X (1..MaxFixElems) \X TextElems : x[2] <= Len(x[1])}}
RECURSIVE Join(_, _)
Join(es, sep) ==
  IF es = <<>> THEN <<>>
  ELSE IF Len(es) = 1 THEN es[1]
  ELSE es[1] \o sep \o Join(Tail(es), sep)

\* {"a":[e1,e2 ]}: the elements with sep between them, then last, then
\* the whitespace gap before the closing bracket
Payload(es, sep, last, gap) == Obj(<<"[">> \o Join(es, sep) \o last \o gap \o <<"]">>)

\* the texts handed to _fix_json: how they were made, and the well-formed
\* payload they were made from
FixInputs ==
  UNION {LET w == Payload(es, <<",">>, <<>>, g)
         IN {[how |-> "valid", origin |-> w, input |-> w],
             [how |-> "trailing", origin |-> w, input |-> Payload(es, <<",">>, <<",">>, g)],
             [how |-> "nocomma", origin |-> w, input |-> Payload(es, <<>>, <<>>, g)],
             [how |-> "cut", origin |-> w, input |-> SubSeq(w, 1, Len(w) - 1)],
             [how |-> "cut", origin |-> w, input |-> SubSeq(w, 1, Len(w) - 2)],
             [how |-> "cut", origin |-> w, input |-> SubSeq(w, 1, Len(w) - 3)]}
         : <<es, g>> \in FixLists \X {<<>>, <<" ">>}}
  \cup {LET w == Obj(<<"[", "[", "1", "]", ",", "[", "1", "]", "]">>)
         IN [how |-> "nocomma", origin |-> w,
             input |-> Obj(<<"[", "[", "1", "]", "[", "1", "]", "]">>)]}

\* ai_connector.py:273-398  _fix_json(json_str)
FixCall ==
  /\ fx.calls = 0
  /\ fx' = [fx EXCEPT !.calls = 1, !.out = FixJson(fx.input)]
  /\ UNCHANGED <<uiVars, fsVars, env, workers, vs, af, pf, callVars>>

\* _fix_json applied to what it returned
FixAgain ==
  /\ fx.calls = 1
  /\ fx' = [fx EXCEPT !.calls = 2, !.again = FixJson(fx.out.str)]
  /\ UNCHANGED <<uiVars, fsVars, env, workers, vs, af, pf, callVars>>

InitFix ==
  /\ IdleUI
  /\ env = MkEnv({}, {}, {})
  /\ backups = 0
  /\ outputs = <<>>
  /\ files = {}
  /\ clock = 0
  /\ workers = <<>>
  /\ vs = NoCall
  /\ af = NoAnalysis
  /\ InitCalls
  /\ pf = NoFormat
  /\ \E x \in FixInputs :
       fx = [NoFix EXCEPT !.how = x.how, !.origin = x.origin, !.input = x.input]

NextFix == FixCall \/ FixAgain

SpecFix == InitFix /\ [][NextFix]_vars


(***************************************************************************)
(* analyze_text_features called directly with any short document.          *)
(***************************************************************************)
\* "chapter heading": three ideographs, a space, two ideographs
ChapterHeading == <<"zh", "zh", "zh", " ", "zh", "zh">>
\* "1.1 text"
DecimalHeading == <<"1", ".", "1", " ", "zh", "zh", "zh", "zh">>
\* sentences: ideographs closed by the ideographic full stop, and letters
\* closed by a period
CjkSentence == Repeat("zh", 7) \o <<"zh.">>
Sentence == Repeat("e", 24) \o <<".">>
\* the blank paragraphs, the headings and sentences above, "1. text", a
\* paragraph of 51 letters, one of 51 letters that ends in "title",
\* "Abstract", "Keywords: e", "References" and "abstract keywords"
ParaPool ==
  {<<>>, <<" ">>, ChapterHeading, DecimalHeading, CjkSentence, Sentence,
   <<"1", ".", " ", "zh", "zh">>,
   Repeat("e", 51),
   Repeat("e", 46) \o <<"t", "i", "t", "l", "e">>,
   <<"A", "b", "s", "t", "r", "a", "c", "t">>,
   <<"K", "e", "y", "w", "o", "r", "d", "s", ":", " ", "e">>,
   <<"R", "e", "f", "e", "r", "e", "n", "c", "e", "s">>,
   <<"a", "b", "s", "t", "r", "a", "c", "t", " ", "k", "e", "y", "w", "o", "r", "d", "s">>}
\* "T", "Abstract", "p1", "p2", "1. Intro", "body"
HintsExample ==
  <<<<"T">>, <<"A", "b", "s", "t", "r", "a", "c", "t">>, <<"p", "1">>, <<"p", "2">>,
    <<"1", ".", " ", "I", "n", "t", "r", "o">>, <<"b", "o", "d", "y">>>>
Documents == SeqsUpTo(ParaPool, MaxParas) \cup {HintsExample}

\* structure_analyzer.py:46-99
AnalyzeCall ==
  /\ ~af.done
  /\ af' = [af EXCEPT !.done = TRUE, !.out = AnalyzeTextFeatures(af.input)]
  /\ UNCHANGED <<uiVars, fsVars, env, workers, vs, fx, pf, callVars>>

InitAnalyze ==
  /\ IdleUI
  /\ env = MkEnv({}, {}, {})
  /\ backups = 0
  /\ outputs = <<>>
  /\ files = {}
  /\ clock = 0
  /\ workers = <<>>
  /\ vs = NoCall
  /\ fx = NoFix
  /\ pf = NoFormat
  /\ InitCalls
  /\ \E doc \in Documents : af = [NoAnalysis EXCEPT !.input = doc]

\* generate_structure_hints(features) after analyze_text_features
HintsCall ==
  /\ af.done
  /\ ~hs.done
  /\ hs' = [done |-> TRUE, out |-> GenerateStructureHints(af.out)]
  /\ UNCHANGED <<uiVars, fsVars, env, workers, vs, fx, af, pf, exceptHs>>

NextAnalyze == AnalyzeCall \/ HintsCall

SpecAnalyze == InitAnalyze /\ [][NextAnalyze]_vars


(***************************************************************************)
(* apply_formatting called several times on the same input file and        *)
(* output directory, while time passes.                                    *)
(***************************************************************************)
\* one second passes
Tick ==
  /\ clock < MaxClock
  /\ clock' = clock + 1
  /\ UNCHANGED <<uiVars, backups, outputs, files, env, workers, vs, pureVars>>

\* apply_formatting has returned and is called again with the same
\* instructions
ApplyAgain ==
  /\ Len(workers) < MaxRuns
  /\ workers[Len(workers)].pc = "applied"
  /\ workers' = Append(workers, [NewWorker EXCEPT !.ts = "running", !.pc = "apply",
                                                  !.docLoaded = TRUE,
                                                  !.ext = workers[1].ext,
                                                  !.instr = workers[1].instr])
  /\ UNCHANGED <<uiVars, fsVars, env, vs, pureVars>>

InitSave ==
  /\ IdleUI
  /\ env = MkEnv({}, {}, {TRUE, FALSE})
  /\ backups = 0
  /\ outputs = <<>>
  /\ files = {}
  /\ clock = 0
  /\ vs = NoCall
  /\ fx = NoFix
  /\ af = NoAnalysis
  /\ InitCalls
  /\ pf = NoFormat
  /\ \E es \in SeqsUpTo({GoodElem, NonDictElem}, 1), ext \in InputExtensions :
       workers = <<[NewWorker EXCEPT !.ts = "running", !.pc = "apply",
                                     !.docLoaded = TRUE, !.ext = ext,
                                     !.instr = MkStruct("list", es)]>>

NextSave ==
  \/ Tick
  \/ ApplyAgain
  \/ \E w \in DOMAIN workers :
       \/ ApplyEnter(w)
       \/ ProcessElementAdd(w)
       \/ ProcessElementFormat(w)
       \/ BatchEnd(w)
       \/ GenerateOutputName(w)
       \/ SaveBegin(w)
       \/ SaveEnd(w)

SpecSave == InitSave /\ [][NextSave]_vars


(***************************************************************************)
(* _apply_paragraph_format called directly with any format record.         *)
(***************************************************************************)
SpacingHundredths ==
  ExactHundredths \cup {79, 80, 81, 89, 90, 91, 109, 110, 111, 139, 140, 141,
                        145, 155, 159, 160, 161, 189, 190, 191, 209, 210, 211,
                        299, 301}

LineSpacings ==
  {[kind |-> "absent", num |-> NaN], [kind |-> "text", num |-> NaN],
   [kind |-> "number", num |-> NaN]}
    \cup {[kind |-> "number", num |-> Double(h)] : h \in SpacingHundredths}

Alignments == {"absent", "left", "center", "right", "justify", "other"}

FormatCall ==
  /\ ~pf.done
  /\ pf' = [pf EXCEPT !.done = TRUE,
                      !.rule = LineSpacingRule(pf.line_spacing),
                      !.align = Alignment(pf.alignment)]
  /\ UNCHANGED <<uiVars, fsVars, env, workers, vs, fx, af, callVars>>

InitFormat ==
  /\ IdleUI
  /\ env = MkEnv({}, {}, {TRUE})
  /\ workers = <<>>
  /\ backups = 0
  /\ outputs = <<>>
  /\ files = {}
  /\ clock = 0
  /\ vs = NoCall
  /\ fx = NoFix
  /\ af = NoAnalysis
  /\ InitCalls
  /\ \E ls \in LineSpacings, al \in Alignments :
       pf = [NoFormat EXCEPT !.line_spacing = ls, !.alignment = al]

NextFormat == FormatCall

SpecFormat == InitFormat /\ [][NextFormat]_vars


(***************************************************************************)
(* A FormatManager used directly: templates are saved, deleted and loaded. *)
(***************************************************************************)
\* io: "ok"; "remove" the preparation (makedirs, remove) raises; "open"
\* the old file is removed and open raises
SaveTemplate(template_name, template_content, io) ==
  LET content == WithName(template_name, template_content)
  IN /\ fm.saves < MaxSaves
     /\ fm' = [fm EXCEPT !.templates[template_name] = content,
                         !.files[template_name] =
                            IF io = "ok" THEN content
                            ELSE IF io = "open" THEN NoTemplate ELSE @,
                         !.last = [name |-> template_name, content |-> content,
                                   ok |-> io = "ok"],
                         !.phase = "saved",
                         !.saves = @ + 1]
     /\ UNCHANGED <<uiVars, fsVars, env, workers, vs, fx, af, pf, exceptFm>>

LoadTemplates ==
  /\ fm.phase # "loaded"
  /\ \E t \in LoadedTemplates(fm.files) :
       fm' = [fm EXCEPT !.templates = t,
                        !.phase = IF fm.phase = "saved" THEN "loaded" ELSE "new"]
  /\ UNCHANGED <<uiVars, fsVars, env, workers, vs, fx, af, pf, exceptFm>>

\* removed: whether os.remove succeeds
DeleteTemplate(template_name, removed) ==
  /\ fm.templates[template_name] # NoTemplate
  /\ fm' = [fm EXCEPT !.templates[template_name] = NoTemplate,
                      !.files[template_name] = IF removed THEN NoTemplate ELSE @,
                      !.phase = "new"]
  /\ UNCHANGED <<uiVars, fsVars, env, workers, vs, fx, af, pf, exceptFm>>

InitTemplates ==
  /\ IdleUI
  /\ env = MkEnv({}, {}, {TRUE})
  /\ workers = <<>>
  /\ backups = 0
  /\ outputs = <<>>
  /\ files = {}
  /\ clock = 0
  /\ vs = NoCall
  /\ fx = NoFix
  /\ af = NoAnalysis
  /\ pf = NoFormat
  /\ InitCalls

NextTemplates ==
  \/ \E n \in TemplateNames, c \in TemplateContents, io \in {"ok", "remove", "open"} :
       SaveTemplate(n, c, io)
  \/ LoadTemplates
  \/ \E n \in TemplateNames, removed \in BOOLEAN : DeleteTemplate(n, removed)

SpecTemplates == InitTemplates /\ [][NextTemplates]_vars


(***************************************************************************)
(* The two extractions called directly with any short reply.               *)
(***************************************************************************)
ReplyChars == {"{", "}", "a", " ", "f"}
ReplyTexts == SeqsUpTo(ReplyChars, MaxTextLen)

ParseResponseExtract ==
  /\ ~ex.pr_done
  /\ ex' = [ex EXCEPT !.pr_done = TRUE, !.pr = JsonContent(ex.content)]
  /\ UNCHANGED <<uiVars, fsVars, env, workers, vs, fx, af, pf, exceptEx>>

TemplateParserExtract ==
  /\ ~ex.tp_done
  /\ ex' = [ex EXCEPT !.tp_done = TRUE, !.tp = ExtractJsonFromContent(ex.content)]
  /\ UNCHANGED <<uiVars, fsVars, env, workers, vs, fx, af, pf, exceptEx>>

InitExtract ==
  /\ IdleUI
  /\ env = MkEnv({}, {}, {TRUE})
  /\ workers = <<>>
  /\ backups = 0
  /\ outputs = <<>>
  /\ files = {}
  /\ clock = 0
  /\ vs = NoCall
  /\ fx = NoFix
  /\ af = NoAnalysis
  /\ pf = NoFormat
  /\ fm = NoTemplates
  /\ hs = NoHints
  /\ ft = NoFont
  /\ \E t \in ReplyTexts : ex = [NoExtraction EXCEPT !.content = t]

NextExtract == ParseResponseExtract \/ TemplateParserExtract

SpecExtract == InitExtract /\ [][NextExtract]_vars


(***************************************************************************)
(* _apply_font called directly on a new run with any format record.        *)
(***************************************************************************)
FontFormats ==
  [font : {"absent", "songti", "heiti", "Arial"},
   size : {"absent", "huge"} \cup TemplateSizeNames \cup NumericSizes,
   bold : {"absent", "True", "False"}]

ApplyFontCall ==
  /\ ~ft.done
  /\ ft' = [ft EXCEPT !.done = TRUE, !.run = ApplyFont(ft.run, ft.format_info)]
  /\ UNCHANGED <<uiVars, fsVars, env, workers, vs, fx, af, pf, exceptFt>>

InitFont ==
  /\ IdleUI
  /\ env = MkEnv({}, {}, {TRUE})
  /\ workers = <<>>
  /\ backups = 0
  /\ outputs = <<>>
  /\ files = {}
  /\ clock = 0
  /\ vs = NoCall
  /\ fx = NoFix
  /\ af = NoAnalysis
  /\ pf = NoFormat
  /\ fm = NoTemplates
  /\ ex = NoExtraction
  /\ hs = NoHints
  /\ \E f \in FontFormats : ft = [NoFont EXCEPT !.format_info = f]

NextFont == ApplyFontCall

SpecFont == InitFont /\ [][NextFont]_vars

(***************************************************************************)
(* The worker thread and its owner.                                        *)
(***************************************************************************)
\* main_window.py:274-279  FormattingWorker.stop; terminate() asks the
\* system to end the thread, which happens then or later
StopOf(wr) ==
  IF wr.is_running
    THEN [wr EXCEPT !.is_running = FALSE,
                    !.ts = IF @ = "running" THEN "killing" ELSE @]
    ELSE wr

\* QThread.terminate()
TerminateOf(wr) == [wr EXCEPT !.ts = IF @ = "running" THEN "killing" ELSE @]

\* the thread ends where it stands
ThreadDie(w) ==
  /\ w \in DOMAIN workers
  /\ workers[w].ts = "killing"
  /\ workers' = [workers EXCEPT ![w].ts = "dead"]
  /\ UNCHANGED <<uiVars, fsVars, env, vs, pureVars>>

\* stop() called by the owner of a worker that has been started
StopWorker(w) ==
  /\ w \in DOMAIN workers
  /\ workers[w].ts # "new"
  /\ workers[w].ts # "dead"
  /\ workers' = [workers EXCEPT ![w] = StopOf(@)]
  /\ UNCHANGED <<uiVars, fsVars, env, vs, pureVars>>

RunStep(w) ==
  \/ RunBegin(w)
  \/ RunRead(w)
  \/ RunAnalyze(w)
  \/ RunPrompt(w)
  \/ RunUnexpected(w)
  \/ RunSend(w)
  \/ RunParse(w)
  \/ RunValidate(w)
  \/ ApplyEnter(w)
  \/ ProcessElementAdd(w)
  \/ ProcessElementFormat(w)
  \/ BatchEnd(w)
  \/ GenerateOutputName(w)
  \/ SaveBegin(w)
  \/ SaveEnd(w)
  \/ RunAfterApply(w)

(***************************************************************************)
(* One run of the worker, with every reply of the service.              *)
(***************************************************************************)
RespElems == {GoodElem, NonDictElem, NumberElem, NumListElem, EmptyFmtElem,
              NoTypeElem, NoContentElem, NoFormatElem}
RespStructs == {MkStruct(k, <<>>) : k \in {"emptydict", "noelements", "elemsnull", "elemsnum"}}
               \cup {MkStruct("list", es) : es \in SeqsUpTo(RespElems, MaxRespElems)}
Replies == {MkReply(t, NoStruct) : t \in {"empty", "nobrace", "garbage"}}
           \cup {MkReply("json", p) : p \in RespStructs}

Init ==
  /\ IdleUI
  /\ env = MkEnv(Replies, Outcomes, BOOLEAN)
  /\ backups = 0
  /\ outputs = <<>>
  /\ files = {}
  /\ clock = 0
  /\ vs = NoCall
  /\ fx = NoFix
  /\ af = NoAnalysis
  /\ InitCalls
  /\ pf = NoFormat
  /\ workers = <<[NewWorker EXCEPT !.ts = "running"]>>

Next ==
  \E w \in DOMAIN workers :
    \/ RunStep(w)
    \/ StopWorker(w)
    \/ ThreadDie(w)

Spec == Init /\ [][Next]_vars


(***************************************************************************)
(* The two main windows.                                                   *)
(***************************************************************************)
\* task_completed signals emitted and not yet handled by the window
Pending == {p \in (DOMAIN workers) \X (1..1) :
              p[2] <= Len(workers[p[1]].emits) /\ p \notin delivered}

\* FormattingWorker(...) followed by start()
StartedWorkers == Append(workers, [NewWorker EXCEPT !.ts = "running"])

\* main_window.py:605-626  MainWindow.select_document
SelectDocument ==
  /\ window = "v1"
  /\ ~start_btn
  /\ start_btn' = TRUE
  /\ UNCHANGED <<window, config, formatting_worker, stop_btn, is_processing,
                 waiting, delivered, starts, testRequests, lastConfigCheck,
                 fsVars, env, workers, vs, pureVars>>

\* main_window.py:821-876  MainWindow.start_formatting
StartFormatting ==
  /\ window = "v1"
  /\ start_btn
  /\ starts < MaxStarts
  /\ starts' = starts + 1
  /\ \E test \in TestOutcomes :
       LET c == ValidateConfig(config, test)
       IN /\ testRequests' = testRequests + c.requests
          /\ lastConfigCheck' = c
          /\ IF c.valid
               THEN /\ workers' = StartedWorkers
                    /\ formatting_worker' = Len(workers) + 1
                    /\ start_btn' = FALSE
                    /\ stop_btn' = TRUE
               ELSE UNCHANGED <<workers, formatting_worker, start_btn, stop_btn>>
  /\ UNCHANGED <<window, config, is_processing, waiting, delivered, fsVars, env, vs, pureVars>>

\* main_window.py:878-895  MainWindow.stop_formatting, the user confirming
StopFormatting ==
  /\ window = "v1"
  /\ stop_btn
  /\ formatting_worker # 0
  /\ IsRunning(formatting_worker)
  /\ workers' = [workers EXCEPT ![formatting_worker] = StopOf(@)]
  /\ start_btn' = TRUE
  /\ stop_btn' = FALSE
  /\ UNCHANGED <<window, config, formatting_worker, is_processing, waiting,
                 delivered, starts, testRequests, lastConfigCheck, fsVars, env, vs, pureVars>>

\* main_window.py:901-914  MainWindow.on_formatting_completed
OnFormattingCompleted ==
  /\ window = "v1"
  /\ \E p \in Pending : delivered' = delivered \cup {p}
  /\ start_btn' = TRUE
  /\ stop_btn' = FALSE
  /\ UNCHANGED <<window, config, formatting_worker, is_processing, waiting,
                 starts, testRequests, lastConfigCheck, fsVars, env, workers, vs, pureVars>>

\* panels/document_panel.py:189-219  DocumentPanel._select_document
PanelSelectDocument ==
  /\ window = "v2"
  /\ ~waiting
  /\ ~start_btn
  /\ start_btn' = TRUE
  /\ UNCHANGED <<window, config, formatting_worker, stop_btn, is_processing,
                 waiting, delivered, starts, testRequests, lastConfigCheck,
                 fsVars, env, workers, vs, pureVars>>

\* main_window_v2.py:286-311 and 337-404  _on_formatting_requested with
\* _start_formatting_worker
OnFormattingRequested ==
  /\ window = "v2"
  /\ ~waiting
  /\ start_btn
  /\ starts < MaxStarts
  /\ starts' = starts + 1
  /\ is_processing' = TRUE
  /\ stop_btn' = TRUE
  /\ \E test \in TestOutcomes :
       LET c == ValidateConfig(config, test)
       IN /\ testRequests' = testRequests + c.requests
          /\ lastConfigCheck' = c
          /\ IF c.valid
               THEN /\ workers' = StartedWorkers
                    /\ formatting_worker' = Len(workers) + 1
               ELSE UNCHANGED <<workers, formatting_worker>>
  /\ UNCHANGED <<window, config, start_btn, waiting, delivered, fsVars, env, vs, pureVars>>

\* main_window_v2.py:313-325  _on_stop_requested up to wait(3000);
\* panels/status_panel.py:173-177
OnStopRequested ==
  /\ window = "v2"
  /\ ~waiting
  /\ stop_btn
  /\ is_processing
  /\ IF formatting_worker # 0
       THEN /\ workers' = [workers EXCEPT ![formatting_worker] = StopOf(@)]
            /\ waiting' = TRUE
            /\ UNCHANGED <<is_processing, stop_btn>>
       ELSE /\ is_processing' = FALSE
            /\ stop_btn' = FALSE
            /\ UNCHANGED <<workers, waiting>>
  /\ UNCHANGED <<window, config, formatting_worker, start_btn, delivered,
                 starts, testRequests, lastConfigCheck, fsVars, env, vs, pureVars>>

\* main_window_v2.py:326-335  _on_stop_requested once wait(3000) is over
OnStopWaited ==
  /\ window = "v2"
  /\ waiting
  /\ workers' = [workers EXCEPT ![formatting_worker] = TerminateOf(@)]
  /\ formatting_worker' = 0
  /\ waiting' = FALSE
  /\ is_processing' = FALSE
  /\ stop_btn' = FALSE
  /\ UNCHANGED <<window, config, start_btn, delivered, starts, testRequests,
                 lastConfigCheck, fsVars, env, vs, pureVars>>

\* main_window_v2.py:406-425  _on_formatting_completed
PanelOnFormattingCompleted ==
  /\ window = "v2"
  /\ ~waiting
  /\ \E p \in Pending : delivered' = delivered \cup {p}
  /\ formatting_worker' = 0
  /\ UNCHANGED <<window, config, start_btn, stop_btn, is_processing, waiting,
                 starts, testRequests, lastConfigCheck, fsVars, env, workers, vs, pureVars>>

\* the replies of the service while a window is observed
UIReplies == {MkReply("json", MkStruct("list", <<GoodElem>>)),
              MkReply("garbage", NoStruct)}

InitUI ==
  /\ window \in {"v1", "v2"}
  /\ config \in Configs
  /\ env = MkEnv(UIReplies, {"ok", "fault"}, {TRUE})
  /\ workers = <<>>
  /\ formatting_worker = 0
  /\ start_btn = FALSE
  /\ stop_btn = FALSE
  /\ is_processing = FALSE
  /\ waiting = FALSE
  /\ delivered = {}
  /\ starts = 0
  /\ testRequests = 0
  /\ lastConfigCheck = NoCheck
  /\ backups = 0
  /\ outputs = <<>>
  /\ files = {}
  /\ clock = 0
  /\ vs = NoCall
  /\ fx = NoFix
  /\ af = NoAnalysis
  /\ InitCalls
  /\ pf = NoFormat

NextUI ==
  \/ SelectDocument
  \/ StartFormatting
  \/ StopFormatting
  \/ OnFormattingCompleted
  \/ PanelSelectDocument
  \/ OnFormattingRequested
  \/ OnStopRequested
  \/ OnStopWaited
  \/ PanelOnFormattingCompleted
  \/ \E w \in DOMAIN workers : RunStep(w) \/ ThreadDie(w)

SpecUI == InitUI /\ [][NextUI]_vars


(***************************************************************************)
(* Properties.                                                             *)
(***************************************************************************)
InTrace(wr, stage) == \E k \in 1..Len(wr.trace) : wr.trace[k] = stage
IsPrefix(s, t) == Len(s) <= Len(t) /\ \A k \in 1..Len(s) : s[k] = t[k]
WroteOutput(w) == \E k \in 1..Len(outputs) : outputs[k].by = w

\* C1: after apply_formatting returns success for a list of n elements the
\* output document has exactly n paragraphs (as claimed; the code drops the
\* elements that are not records or whose content cannot be sliced).
C1_OneParagraphPerElement ==
  \A w \in DOMAIN workers :
    workers[w].applyRet = "true" => Len(workers[w].paras) = Total(workers[w])

\* C2: a failing element never keeps a later element from being processed
\* nor the output from being saved: the elements are handed to
\* _process_element in list order, all of them (in ceil(n/batch_size)
\* batches) before the output name is computed, and once an element has
\* been processed apply_formatting fails only if the output cannot be
\* written.
C2_FailureNeverAborts ==
  \A w \in DOMAIN workers :
    LET wr == workers[w]
        total == Total(wr)
    IN /\ wr.calls = [k \in 1..Len(wr.calls) |-> k]
       /\ (wr.pc \in {"name", "save", "saving"} \/ wr.failWhy \in {"dir", "save"}
             \/ wr.applyRet = "true")
            => /\ Len(wr.calls) = total
               /\ wr.batches = (total + batch_size - 1) \div batch_size
       /\ (wr.applyRet = "false" /\ wr.calls # <<>>) => wr.failWhy \in {"dir", "save"}

\* a list longer than a batch, with a failing third element and a failing
\* last element of the first batch, has been applied and saved
C2_Witness ==
  \E w \in DOMAIN workers :
    LET wr == workers[w]
    IN /\ wr.applyRet = "true"
       /\ Total(wr) > batch_size
       /\ ElementFails(ApplyElements(wr.instr)[3])
       /\ ElementFails(ApplyElements(wr.instr)[batch_size])
       /\ Len(wr.calls) = Total(wr)

\* C3: after validate_structure returns success every element has type,
\* content and a format record with font, size, bold, line_spacing and
\* alignment (as claimed; the code leaves a format that is present as it
\* is, and the record it adds has no bold and no alignment).
C3_FullyPopulated ==
  vs.res = "valid" =>
    \A k \in 1..Len(vs.struct.elems) :
      /\ vs.struct.elems[k].keys = ElemKeys
      /\ FormatAttrs \subseteq vs.struct.elems[k].fmt

\* C4: when validate_structure reports the structure invalid the run
\* aborts: apply_formatting is not called, no backup and no output is
\* written and the run completes with failure (as claimed; the code logs
\* the verdict and goes on to apply_formatting).
C4_InvalidStructureAborts ==
  \A w \in DOMAIN workers :
    LET wr == workers[w]
    IN wr.valid = "invalid" =>
         /\ ~InTrace(wr, "apply")
         /\ wr.backup = "none"
         /\ ~WroteOutput(w)
         /\ wr.ts = "finished" => wr.emits = <<FALSE>>

\* C5: a response whose element list is present and made of records, one
\* of which lacks type, content or format, does not end the run at the
\* parse stage (as claimed; parse_response rejects such a response before
\* validate_structure can add the missing field).
C5_MissingFieldNotFatal ==
  \A w \in DOMAIN workers :
    LET wr == workers[w]
        es == wr.reply.payload.elems
    IN (/\ InTrace(wr, "parse")
        /\ wr.reply.text = "json"
        /\ wr.reply.payload.kind = "list"
        /\ \A k \in 1..Len(es) : es[k].isDict
        /\ \E k \in 1..Len(es) : es[k].keys # ElemKeys)
       => wr.parseOk

\* C6: the stages of a run execute in the order read, analyze, prompt,
\* send, parse, validate, apply, each at most once; after a failed request
\* the send stage is the last one, after a response that cannot be parsed
\* the parse stage is the last one, and in both cases the run has written
\* neither a backup nor an output file.
C6_StagesInOrder ==
  \A w \in DOMAIN workers :
    LET wr == workers[w]
    IN /\ IsPrefix(wr.trace, StageOrder)
       /\ wr.outcome \notin {"none", "ok"}
            => /\ wr.trace = SubSeq(StageOrder, 1, 4)
               /\ wr.backup = "none" /\ ~WroteOutput(w) /\ backups = 0
       /\ (InTrace(wr, "parse") /\ wr.reply.text # "json")
            => /\ wr.trace = SubSeq(StageOrder, 1, 5)
               /\ wr.backup = "none" /\ ~WroteOutput(w) /\ backups = 0

\* a run whose request met a non-200 status has ended after four stages
C6_Witness ==
  \E w \in DOMAIN workers :
    /\ workers[w].outcome = "status"
    /\ workers[w].ts = "finished"
    /\ Len(workers[w].trace) = 4

\* the first empty setting in the order URL, key, model
FirstEmpty(cfg) ==
  IF cfg.api_url = "" THEN "url" ELSE IF cfg.api_key = "" THEN "key" ELSE "model"
SomeEmpty(cfg) == cfg.api_url = "" \/ cfg.api_key = "" \/ cfg.model = ""

\* C7: with an empty URL, key or model validate_config fails naming the
\* first empty one (order URL, key, model) and issues no request; and a
\* start request whose validate_config fails creates no worker.
C7_EmptySettingBlocksRun ==
  /\ [](SomeEmpty(config) =>
          /\ testRequests = 0
          /\ workers = <<>>
          /\ starts > 0 => /\ ~lastConfigCheck.valid
                           /\ lastConfigCheck.msg = FirstEmpty(config)
                           /\ lastConfigCheck.requests = 0)
  /\ [][(starts' = starts + 1 /\ ~lastConfigCheck'.valid) => workers' = workers]_vars

\* a start request was refused with URL and key both empty
C7_Witness ==
  /\ starts > 0
  /\ config.api_url = ""
  /\ config.api_key = ""
  /\ lastConfigCheck.msg = "url"
  /\ workers = <<>>

\* C8: send_request issues exactly one HTTP request whatever the outcome,
\* a run sends the prompt at most once, and a run whose request failed has
\* ended.
C8_OneRequestPerRun ==
  \A w \in DOMAIN workers :
    LET wr == workers[w]
    IN /\ wr.posts = IF InTrace(wr, "send") THEN 1 ELSE 0
       /\ wr.outcome \notin {"none", "ok"} => wr.ts = "finished" /\ wr.pc = "done"

\* a run whose request timed out has ended having sent one request
C8_Witness ==
  \E w \in DOMAIN workers :
    /\ workers[w].outcome = "timeout"
    /\ workers[w].posts = 1
    /\ workers[w].pc = "done"

\* C9: a stopped worker is never interrupted while a single element is
\* being applied or while the output file is being written (as claimed;
\* stop() calls terminate(), which ends the thread wherever it stands).
C9_StopOnlyAtBoundaries ==
  \A w \in DOMAIN workers :
    workers[w].ts = "dead" => workers[w].pc \notin {"elem", "saving"}

\* C10: at most one formatting worker is running at any time (as claimed;
\* neither window refuses a start request while a run is in progress).
C10_AtMostOneRunning ==
  Cardinality({w \in DOMAIN workers : IsRunning(w)}) <= 1

\* C11: _fix_json applied to a text that json.loads accepts returns that
\* text unchanged (as claimed; a "}," followed by "]", or a "}{", inside a
\* string value is rewritten, and the rewritten text parses).
C11_ValidPayloadUnchanged ==
  (fx.calls >= 1 /\ IsJson(fx.input)) => fx.out.str = fx.input

\* C12: when _fix_json found a repair for x, applying it to the result
\* returns that result (as claimed; the result is a valid text, which
\* _fix_json rewrites when a string value holds "}{" or "},]").
C12_RepairIdempotent ==
  (fx.calls = 2 /\ fx.out.found) => fx.again.str = fx.out.str

\* C13: the text obtained from a well-formed payload with a non-empty list
\* of records by adding one comma after the last element is repaired into
\* a text that parses to the value of the well-formed payload.
C13_TrailingCommaRepaired ==
  (fx.how = "trailing" /\ fx.calls >= 1) =>
    /\ IsJson(fx.origin)
    /\ ~IsJson(fx.input)
    /\ fx.out.found
    /\ IsJson(fx.out.str)
    /\ Loads(fx.out.str) = Loads(fx.origin)

\* a payload of two records with whitespace before the closing bracket and
\* a string value holding "},]" was repaired at the second candidate
\* position
C13_Witness ==
  /\ fx.how = "trailing"
  /\ fx.calls >= 1
  /\ fx.out.via = 1
  /\ Count(fx.origin, " ") = 1
  /\ Cardinality(ArrayEndPositions(fx.input)) = 2
  /\ fx.out.str # CommaToSpace(fx.input, MinOf(ArrayEndPositions(fx.input)))
  /\ Loads(fx.out.str) = Loads(fx.origin)

\* the indices of the paragraphs of the input detected for a section
Matching(section) == {i \in 0..Len(af.input) - 1 : SectionOf(af.input[i + 1]) = section}

\* C14: for each special section the index recorded is that of the first
\* paragraph, in document order, matching the section's keyword list; a
\* later match does not change it (as claimed; the code overwrites the
\* index at every later match).
C14_FirstMatchWins ==
  af.done =>
    \A section \in {"abstract", "keywords", "references"} :
      Matching(section) # {} =>
        /\ section \in DOMAIN af.out.special_sections
        /\ af.out.special_sections[section] = MinOf(Matching(section))

\* C15: for every non-empty paragraph sequence the features satisfy
\* min_length <= avg_length <= max_length (as claimed; when every paragraph
\* is blank min_length stays float('inf') and avg_length and max_length 0).
C15_MinAvgMax ==
  (af.done /\ af.input # <<>>) =>
    /\ af.out.min_length * af.out.avg_length.den <= af.out.avg_length.num
    /\ af.out.avg_length.num <= af.out.max_length * af.out.avg_length.den

\* C16: on an empty paragraph sequence the summary has every field, the
\* counters zero and the collections empty (as claimed; the code returns
\* an empty dictionary).
C16_EmptyInputWellFormed ==
  (af.done /\ af.input = <<>>) =>
    /\ af.out.fields = FeatureFields
    /\ af.out.paragraph_lengths = <<>>
    /\ af.out.potential_titles = <<>>
    /\ af.out.potential_subtitles = <<>>
    /\ af.out.special_sections = <<>>
    /\ af.out.avg_length.num = 0
    /\ af.out.max_length = 0

\* C17: in a document made of chapter headings, one decimal-numbered
\* sub-heading "N.N text" and sentences, every chapter heading is a title
\* candidate, the sub-heading is a subtitle candidate and no paragraph is
\* both (as claimed; "N.N text" matches none of numeric_title_patterns, which
\* ask for a dot after the last number, and its dot keeps it from the
\* short-paragraph rule).
C17_HeadingsRecognised ==
  (/\ af.done
   /\ \A k \in DOMAIN af.input : af.input[k] \in {ChapterHeading, DecimalHeading, CjkSentence, Sentence}
   /\ \E k \in DOMAIN af.input : af.input[k] = ChapterHeading
   /\ Cardinality({k \in DOMAIN af.input : af.input[k] = DecimalHeading}) = 1)
  => /\ \A k \in DOMAIN af.input :
          /\ af.input[k] = ChapterHeading => InSeq(k - 1, af.out.potential_titles)
          /\ af.input[k] = DecimalHeading => InSeq(k - 1, af.out.potential_subtitles)
     /\ \A i \in 0..Len(af.input) - 1 :
          ~(InSeq(i, af.out.potential_titles) /\ InSeq(i, af.out.potential_subtitles))

\* the paragraphs apply_formatting writes for an instruction list
ExpectedParagraphs(wr) ==
  Cardinality({k \in 1..Total(wr) : AddsParagraph(ApplyElements(wr.instr)[k])})

\* C18: a failed backup never blocks formatting: apply_formatting never
\* fails because of the backup, and whether the backup succeeded or not it
\* hands every element to _process_element and, when it returns success,
\* has written the complete output with the paragraphs of the
\* instructions.
C18_BackupFailureNonFatal ==
  \A w \in DOMAIN workers :
    LET wr == workers[w]
    IN /\ wr.applyRet = "false" => wr.failWhy \in {"nodoc", "shape", "newdoc", "dir", "save"}
       /\ (wr.backup # "none" /\ wr.applyRet = "false") => wr.failWhy \in {"newdoc", "dir", "save"}
       /\ wr.applyRet = "true" =>
            /\ wr.backup \in {"ok", "failed"}
            /\ Len(wr.calls) = Total(wr)
            /\ outputs[wr.out].complete
            /\ outputs[wr.out].paras = ExpectedParagraphs(wr)

\* a list of more than a batch was applied and saved after the backup
\* failed
C18_Witness ==
  \E w \in DOMAIN workers :
    /\ workers[w].backup = "failed"
    /\ workers[w].applyRet = "true"
    /\ Total(workers[w]) > batch_size
    /\ outputs[workers[w].out].paras >= batch_size - MaxBad

\* C19: apply_formatting never saves its output over an existing file (as
\* claimed; the name with the timestamp is not tested for existence, so
\* two runs within one second, the plain name being taken, save to the
\* same path).
C19_NeverOverwrites ==
  \A k \in DOMAIN outputs : ~outputs[k].existed


\* The decimal number h/100 itself.
Exact(h) == [h |-> h, nan |-> FALSE, e |-> 0]

\* The rule the specification names for the multiplier x, its inequalities
\* read over the real numbers.
NamedRule(x) ==
  IF Less(Exact(300), x) \/ Less(x, Exact(80)) THEN "ONE_POINT_FIVE"
  ELSE IF Less(Distance(x, Exact(100)), Exact(10)) THEN "SINGLE"
  ELSE IF Less(Distance(x, Exact(150)), Exact(10)) THEN "ONE_POINT_FIVE"
  ELSE IF Less(Distance(x, Exact(200)), Exact(10)) THEN "DOUBLE"
  ELSE "ONE_POINT_FIVE"

\* The rules the specification lists for 1.0, 1.5, 2.0, 1.45, 1.55, 5.0.
ListedRules ==
  [h \in {100, 150, 200, 145, 155, 500} |->
     IF h = 100 THEN "SINGLE" ELSE IF h = 200 THEN "DOUBLE" ELSE "ONE_POINT_FIVE"]

\* C20: for every numeric line-spacing multiplier x the paragraph is given
\* exactly one of the three rules: 1.5 lines if x > 3.0 or x < 0.8;
\* otherwise single if |x - 1.0| < 0.1, 1.5 lines if |x - 1.5| < 0.1, double
\* if |x - 2.0| < 0.1, and 1.5 lines in every remaining case; 1.0, 1.5, 2.0,
\* 1.45, 1.55 and 5.0 give single, 1.5, double, 1.5, 1.5 and 1.5.
C20_LineSpacingByRule ==
  (pf.done /\ pf.line_spacing.kind = "number") =>
     /\ pf.rule \in {"SINGLE", "ONE_POINT_FIVE", "DOUBLE"}
     /\ pf.rule = NamedRule(pf.line_spacing.num)
     /\ \A h \in DOMAIN ListedRules :
          pf.line_spacing.num = Double(h) => pf.rule = ListedRules[h]

\* a multiplier at the edge of the window around 1.0 has been classified
C20_Witness ==
  /\ pf.done
  /\ pf.line_spacing.kind = "number"
  /\ pf.line_spacing.num = Double(90)
  /\ pf.rule = "SINGLE"


\* C21: after save_template(name, content) followed by load_templates(), the
\* loaded templates hold under the key name the saved content, for every
\* name and content, whether or not the content has its own name field.
C21_SaveLoadRoundTrip ==
  (fm.phase = "loaded" /\ fm.last.ok) =>
     fm.templates[fm.last.name] = fm.last.content


\* C22: when the payload is a valid JSON document cut off before its final
\* closing characters (more { than } and/or more [ than ]), _fix_json adds
\* all the missing closing characters, of both kinds when both are missing,
\* and returns a payload that parses (to the value of the whole document).
C22_CutPayloadCompleted ==
  (fx.how = "cut" /\ fx.calls >= 1) =>
     /\ IsJson(fx.out.str)
     /\ Loads(fx.out.str) = Loads(fx.origin)


\* The end of the balanced span that starts at position o: the first
\* position at which the braces opened from o on are all closed.
SpanEnds(s, o) ==
  {j \in o..Len(s) :
     /\ Count(SubSeq(s, o, j), "{") = Count(SubSeq(s, o, j), "}")
     /\ \A k \in o..(j - 1) :
          Count(SubSeq(s, o, k), "{") > Count(SubSeq(s, o, k), "}")}

\* The first brace of the text opens a balanced span, and no closing brace
\* stands before it.
HasFirstSpan(s) ==
  /\ Positions(s, "{") # {}
  /\ \A c \in Positions(s, "}") : c > MinOf(Positions(s, "{"))
  /\ SpanEnds(s, MinOf(Positions(s, "{"))) # {}

FirstSpan(s) ==
  LET o == MinOf(Positions(s, "{"))
  IN SubSeq(s, o, MinOf(SpanEnds(s, o)))

\* C23: whenever the raw text contains a top-level balanced brace span, the
\* extraction returns exactly the first one, without the prose and the
\* further brace spans around it; this holds for the extraction of
\* parse_response and for _extract_json_from_content.
C23_FirstBalancedSpanExtracted ==
  HasFirstSpan(ex.content) =>
     /\ ex.pr_done => (ex.pr.found /\ ex.pr.str = FirstSpan(ex.content))
     /\ ex.tp_done => ex.tp = FirstSpan(ex.content)


\* The punctuation marks that end a sentence or a clause, ASCII and CJK.
TerminalMarks == {".", "!", "?", ";", ",", "zh.", "zh,"}

\* The three conditions the specification names for a title candidate.
NamedTitleConditions(t, index) ==
  \/ index = 0 /\ Len(t) < 30
  \/ HasKeyword(t, title_keywords)
  \/ Len(t) < 20 /\ \A k \in DOMAIN t : t[k] \notin TerminalMarks

\* C24: a non-blank paragraph is recorded as a title candidate exactly when
\* it is the first paragraph and shorter than 30 characters, or contains a
\* title keyword, or is shorter than 20 characters without a terminal
\* punctuation mark; nothing else (an upper bound on its length, the letters
\* and digits it contains) affects the result.
C24_TitleCandidateConditions ==
  af.done =>
    \A i \in 0..(Len(af.input) - 1) :
       ~IsBlank(af.input[i + 1]) =>
          (InSeq(i, af.out.potential_titles) <=> NamedTitleConditions(af.input[i + 1], i))


\* The paragraph indices greater than s at which the abstract ends: title
\* candidates, subtitle candidates and the keywords index.
AbstractStops(s) ==
  {i \in (s + 1)..(Len(af.input) - 1) :
     \/ InSeq(i, af.out.potential_titles)
     \/ InSeq(i, af.out.potential_subtitles)
     \/ /\ "keywords" \in DOMAIN af.out.special_sections
        /\ i = af.out.special_sections["keywords"]}

\* C25: abstract_range is (s, e), s the abstract start index and e + 1 the
\* smallest paragraph index greater than s that is a title candidate, a
\* subtitle candidate or the keywords index, the scan covering every
\* paragraph index up to the last, also with blank paragraphs; for
\* ["T", "Abstract", "p1", "p2", "1. Intro", "body"] the range covers p1 and
\* p2 and ends before index 4.
C25_AbstractRange ==
  (hs.done /\ "abstract" \in DOMAIN af.out.special_sections) =>
     LET s == af.out.special_sections["abstract"]
     IN /\ ~hs.out.abstract_range.none
        /\ hs.out.abstract_range.a = s
        /\ AbstractStops(s) # {} => hs.out.abstract_range.b + 1 = MinOf(AbstractStops(s))
        /\ af.input = HintsExample => hs.out.abstract_range = Some(1, 3)

\* C26: when a references section is detected at index s, references_range
\* is (s, last), last the index of the last paragraph of the document, so
\* that s <= last, also when the document contains blank paragraphs.
C26_ReferencesRange ==
  (hs.done /\ "references" \in DOMAIN af.out.special_sections) =>
     LET s == af.out.special_sections["references"]
     IN /\ hs.out.references_range = Some(s, Len(af.input) - 1)
        /\ hs.out.references_range.a <= hs.out.references_range.b


\* C27: when the requested size is not a name of the apply engine's size
\* table, the run receives the default body size rather than no size; this
\* covers the names the template side accepts and the table does not list.
C27_UnknownSizeGetsDefault ==
  (/\ ft.done
   /\ ft.format_info.size # "absent"
   /\ ft.format_info.size \notin DOMAIN font_size_mapping)
  => ft.run.size = font_size_mapping["SmallFour"]


\* C28: apply_formatting never saves its output to the path of the input
\* document, on every path through the output-name computation, the
\* fallback after a failure of generate_output_filename and input names
\* whose extension is not the lower-case ".docx" included.
C28_InputNeverOverwritten ==
  \A k \in DOMAIN outputs : outputs[k].name # InputPath


\* C29: every run of FormattingWorker that is not terminated emits
\* task_completed exactly once, on every path (read, request, parse and
\* apply failure, unexpected exception, success), and task_completed is the
\* last signal the run emits.
C29_TaskCompletedOnceAndLast ==
  \A w \in DOMAIN workers :
     workers[w].ts = "finished" =>
        /\ Len(workers[w].emits) = 1
        /\ workers[w].last = "task_completed"

\* a run has returned early after a failed read
C29_Witness ==
  \E w \in DOMAIN workers :
     /\ workers[w].ts = "finished"
     /\ workers[w].trace = <<"read">>
     /\ workers[w].emits = <<FALSE>>

\* C30: whenever FormattingWorker.run has returned, is_running is False, on
\* every path including the early returns after a read, request, parse or
\* apply failure; hence stop() on a worker whose run has returned never
\* calls terminate().
C30_NotRunningAfterReturn ==
  \A w \in DOMAIN workers :
     workers[w].ts = "finished" => ~workers[w].is_running

====
